---- MODULE Spec2Model ----
(***************************************************************************)
(* The classification engine of semops-core: the result contract           *)
(* (scripts/classifiers/base.py), the rule, embedding, local-embedding,    *)
(* graph and LLM strategies (scripts/classifiers/*.py) and the tiered      *)
(* pipeline (scripts/run_classifiers.py).                                   *)
(*                                                                         *)
(* Conventions.  Floats are fixed-point integers in thousandths            *)
(* (0.7 is 700).  Python/JSON values are tagged records (JBool, JNum,      *)
(* JStr, JNull) so that a value of one type never equals one of another.   *)
(* Text is a sequence of character codes: 1..26 are 'a'..'z', 101..126 are *)
(* 'A'..'Z'.  The uuid4 `id` column of the classification table is         *)
(* abstracted away: the table is a bag of rows.                            *)
(***************************************************************************)
EXTENDS Bags, FiniteSets, Integers, Sequences, TLC

(* ------------------------------ bounds --------------------------------- *)
NumConcepts == 2

MaxRuns == 2

MaxFaults == 1

MaxRels == 2

(* --------------------------- Python values ----------------------------- *)
JBool(b) == [bool |-> b]

JNum(n) == [num |-> n]

JStr(s) == [str |-> s]

JNull == [null |-> TRUE]

\* a Python str given as character codes
JText(s) == [text |-> s]

\* a dict with no keys, and a dict entry that is present only when b holds
EmptyDict == [k \in {} |-> JNull]

Opt(b, entry) == IF b THEN entry ELSE EmptyDict

Strs(seq) == [i \in DOMAIN seq |-> JStr(seq[i])]

IsBool(v) == DOMAIN v = {"bool"}

IsNone(v) == DOMAIN v = {"null"}

\* Python truthiness of a str-or-None value: `if preferred_label:`
Truthy(v) == DOMAIN v = {"text"} /\ Len(v.text) > 0

\* f"{v}" of a str-or-None value
Fmt(v) == IF IsNone(v) THEN JStr("None") ELSE v

\* str.lower() on character codes
Lower(s) == [i \in 1..Len(s) |-> IF s[i] > 100 THEN s[i] - 100 ELSE s[i]]

\* s[:n]
Prefix(s, n) == SubSeq(s, 1, IF Len(s) < n THEN Len(s) ELSE n)

\* Python `sub in s` on strings
Contains(sub, s) ==
    \E i \in 0..(Len(s) - Len(sub)) : SubSeq(s, i + 1, i + Len(sub)) = sub

Raise(e) == [raised |-> e]

Return(r) == [returned |-> r]

Raised(o) == DOMAIN o = {"raised"}

\* base.py ClassificationResult (dataclass defaults: empty dicts, None)
ClassificationResult(tt, tid, cid, ver, scores, labels, confidence, rationale, input_hash) ==
    [target_type |-> tt, target_id |-> tid, classifier_id |-> cid,
     classifier_version |-> ver, scores |-> scores, labels |-> labels,
     confidence |-> confidence, rationale |-> rationale, input_hash |-> input_hash]

\* base.py compute_input_hash: a function of the input text alone (the
\* truncated digest is identified with the text it digests)
compute_input_hash(text) == [sha256 |-> text]

(* --------------------------- Rule strategy ----------------------------- *)
RULE_ID == "rule-completeness-v1"

VERSION == "1.0.0"

MIN_DEFINITION_LEN == 20

MAX_DEFINITION_LEN == 2000

CIRCULAR_WINDOW == 50

Cond(b, x) == IF b THEN <<x>> ELSE <<>>

\* a variant that promotes whatever the format checks said
rule_promotion_ready_ignoring_format(completeness, format_valid, issues) ==
    completeness >= 700 /\ Len(issues) <= 1

\* rules.py _classify_concept / run_classifiers.py classify_concept_rules:
\* completeness_score >= 0.7 and format_valid and len(issues) <= 1
rule_promotion_ready(completeness, format_valid, issues) ==
    completeness >= 700 /\ format_valid /\ Len(issues) <= 1

\* rules.py RuleBasedClassifier._classify_concept, has_relationships being
\* the answer of _check_relationships
RuleClassifyConcept(concept_id, content, has_relationships) ==
    LET definition == content.definition
        label == content.preferred_label
        hasDef == Truthy(definition)
        tooShort == hasDef /\ Len(definition.text) < MIN_DEFINITION_LEN
        tooLong == hasDef /\ Len(definition.text) > MAX_DEFINITION_LEN
        \* preferred_label.lower() on None raises AttributeError
        labelNone == hasDef /\ IsNone(label)
        circular == hasDef /\ ~IsNone(label)
                    /\ Contains(Lower(label.text), Prefix(Lower(definition.text), CIRCULAR_WINDOW))
                    /\ Len(definition.text) < CIRCULAR_WINDOW
        issues == Cond(~Truthy(label), "Missing preferred_label")
                   \o Cond(~hasDef, "Missing definition")
                   \o Cond(tooShort, "Definition too short (<20 chars)")
                   \o Cond(tooLong, "Definition too long (>2000 chars)")
                   \o Cond(circular, "Definition may be circular (starts with term)")
                   \o Cond(~has_relationships, "No SKOS relationships (broader, narrower, related)")
        format_valid == ~tooShort /\ ~tooLong /\ ~circular
        completeness == (IF Truthy(label) THEN 300 ELSE 0)
                         + (IF hasDef THEN 400 ELSE 0)
                         + (IF has_relationships THEN 300 ELSE 0)
        promotion_ready == rule_promotion_ready(completeness, format_valid, issues)
    IN IF labelNone THEN Raise("AttributeError")
       ELSE Return(ClassificationResult("concept", concept_id, RULE_ID, VERSION,
            [completeness |-> JNum(completeness), format_valid |-> JBool(format_valid),
             has_relationships |-> JBool(has_relationships),
             promotion_ready |-> JBool(promotion_ready)],
            [issues |-> issues], JNum(1000),
            Strs(IF issues # <<>> THEN <<"Issues found: ">> \o issues
                                  ELSE <<"All validation rules passed">>),
            compute_input_hash(<<Fmt(label), Fmt(definition)>>)))

\* run_classifiers.py classify_concept_rules: the concept dict holds the
\* psql text columns (a NULL column prints as the empty string)
classify_concept_rules(content, has_relationships) ==
    LET definition == content.definition
        label == content.preferred_label
        hasDef == Len(definition) > 0
        tooShort == hasDef /\ Len(definition) < MIN_DEFINITION_LEN
        tooLong == hasDef /\ Len(definition) > MAX_DEFINITION_LEN
        issues == Cond(Len(label) = 0, "Missing preferred_label")
                   \o Cond(~hasDef, "Missing definition")
                   \o Cond(tooShort, "Definition too short (<20 chars)")
                   \o Cond(tooLong, "Definition too long (>2000 chars)")
                   \o Cond(~has_relationships, "No SKOS relationships")
        format_valid == ~tooShort /\ ~tooLong
        completeness == (IF Len(label) > 0 THEN 300 ELSE 0)
                         + (IF hasDef THEN 400 ELSE 0)
                         + (IF has_relationships THEN 300 ELSE 0)
        promotion_ready == rule_promotion_ready(completeness, format_valid, issues)
    IN [classifier_id |-> RULE_ID,
        scores |-> [completeness |-> JNum(completeness), format_valid |-> JBool(format_valid),
                    has_relationships |-> JBool(has_relationships),
                    promotion_ready |-> JBool(promotion_ready)],
        labels |-> [issues |-> issues],
        confidence |-> JNum(1000),
        rationale |-> Strs(IF issues # <<>> THEN <<"Issues: ">> \o issues
                                            ELSE <<"All rules passed">>)]

(* ------------------------- relational store ---------------------------- *)
ConceptIds == 1..NumConcepts

NULL == -1

\* 1-based position of the rows of `ids` ordered by key(id) ascending
RECURSIVE OrderBy(_, _)
OrderBy(ids, key) ==
    IF ids = {} THEN <<>>
    ELSE LET first == CHOOSE i \in ids : \A j \in ids : key[i] <= key[j]
         IN <<first>> \o OrderBy(ids \ {first}, key)

\* base.py get_pending_concepts: WHERE approval_status = 'pending' ORDER BY created_at
get_pending_concepts(concept) ==
    OrderBy({c \in DOMAIN concept : concept[c].approval_status = "pending"},
            [c \in DOMAIN concept |-> concept[c].created_at])

\* run_classifiers.py get_pending_concepts: ... ORDER BY id, read as psql text
\* columns (NULL prints as the empty string); a failed psql gives []
orch_get_pending_concepts(concept, psql_ok) ==
    IF ~psql_ok THEN <<>>
    ELSE OrderBy({c \in DOMAIN concept : concept[c].approval_status = "pending"},
                 [c \in DOMAIN concept |-> c])

\* `if limit: concepts = concepts[:limit]` of classify_pending_concepts and
\* of main (--limit), for no limit (NULL) or a limit >= 0
apply_limit(concepts, limit) ==
    IF limit = NULL \/ limit = 0 THEN concepts
    ELSE SubSeq(concepts, 1, IF limit < Len(concepts) THEN limit ELSE Len(concepts))

\* the dict of one concept as run_classifiers.py parses it from psql output
PsqlText(v) == IF IsNone(v) THEN <<>> ELSE v.text

orch_concept(concept, c) ==
    [preferred_label |-> PsqlText(concept[c].preferred_label),
     definition |-> PsqlText(concept[c].definition)]

\* the row dict base.py hands to classify
row_content(concept, c) ==
    [preferred_label |-> concept[c].preferred_label,
     definition |-> concept[c].definition]

\* rules.py _check_relationships / run_classifiers.py check_relationships:
\* EXISTS (SELECT 1 FROM concept_edge WHERE src_id = c OR dst_id = c)
check_relationships(edges, c) ==
    \E e \in edges : e.src_id = c \/ e.dst_id = c

(* ----------------------------- graph mirror ---------------------------- *)
GRAPH_ID == "graph-structure-v1"

MIN_CONNECTIONS == 1

MIN_PAGERANK_PERCENTILE == 100

CONNECTIVITY_CAP == 10

CYCLE_DEPTH == 10

APPROVED_HOPS == 5

HUB_NARROWER == 3

\* graph.py _get_concept_stats: MATCH (c:Concept {id}) OPTIONAL MATCH (c)-[r]-()
\* count(r): every relationship incident to c, in either direction
Degree(rels, c) == Cardinality({r \in rels : r.src = c \/ r.dst = c})

_get_concept_stats(nodes, rels, c) ==
    IF c \notin DOMAIN nodes THEN [exists |-> FALSE]
    ELSE [exists |-> TRUE, degree |-> Degree(rels, c),
          pagerank |-> nodes[c].pagerank, community |-> nodes[c].community,
          approval_status |-> nodes[c].approval_status]

\* nodes reachable from the set `from` by 1..k BROADER relationships
RECURSIVE BroaderWithin(_, _, _)
BroaderWithin(rels, from, k) ==
    IF k = 0 THEN {}
    ELSE LET step == {r.dst : r \in {q \in rels : q.type = "BROADER" /\ q.src \in from}}
         IN step \cup BroaderWithin(rels, step, k - 1)

\* graph.py _check_hierarchy_cycles: MATCH path = (c)-[:BROADER*1..10]->(c)
_check_hierarchy_cycles(rels, c) == c \in BroaderWithin(rels, {c}, CYCLE_DEPTH)

\* nodes within k hops of `from`, relationships taken in either direction
RECURSIVE Within(_, _, _)
Within(rels, from, k) ==
    IF k = 0 THEN from
    ELSE Within(rels, from \cup {r.dst : r \in {q \in rels : q.src \in from}}
                           \cup {r.src : r \in {q \in rels : q.dst \in from}}, k - 1)

\* graph.py _get_nearest_approved: shortestPath((start)-[*1..5]-(approved)),
\* approved.approval_status = 'approved', approved.id <> start, ORDER BY
\* length LIMIT 1.  The set of answers (nearest_id, distance) the query may
\* give: one of the approved nodes at the least distance, or (NULL, NULL).
ApprovedAt(nodes, rels, c, k) ==
    {a \in Within(rels, {c}, k) \cap DOMAIN nodes :
        a # c /\ nodes[a].approval_status = "approved"}

_get_nearest_approved(nodes, rels, c) ==
    LET ds == {k \in 1..APPROVED_HOPS : ApprovedAt(nodes, rels, c, k) # {}}
    IN IF c \notin DOMAIN nodes \/ ds = {} THEN {[nearest_id |-> NULL, distance |-> NULL]}
       ELSE LET d == CHOOSE k \in ds : \A j \in ds : k <= j
            IN {[nearest_id |-> a, distance |-> d] : a \in ApprovedAt(nodes, rels, c, d)}

\* a/b rounded to the nearest integer
RoundDiv(a, b) == (2 * a + b) \div (2 * b)

\* round(num/den, 3), in thousandths
RoundMilli(num, den) == RoundDiv(1000 * num, den)

\* graph.py _get_pagerank_percentile: share of the nodes with a pagerank whose
\* pagerank is <= the given one, as the pair (count, total); None gives 0.0
\* a variant that ranks a missing pagerank with the scored nodes
_get_pagerank_percentile_ranking_null(nodes, pagerank) ==
    LET scored == {n \in DOMAIN nodes : nodes[n].pagerank # NULL}
    IN [cnt |-> Cardinality({n \in scored : pagerank = NULL \/ nodes[n].pagerank <= pagerank}) + 1,
        total |-> Cardinality(scored) + 1]

_get_pagerank_percentile(nodes, pagerank) ==
    LET scored == {n \in DOMAIN nodes : nodes[n].pagerank # NULL}
    IN IF pagerank = NULL THEN [cnt |-> 0, total |-> 1]
       ELSE [cnt |-> Cardinality({n \in scored : nodes[n].pagerank <= pagerank}),
             total |-> Cardinality(scored)]

Min(a, b) == IF a < b THEN a ELSE b

\* a nullable number as a JSON value
OrNone(x) == IF x = NULL THEN JNull ELSE JNum(x)

\* Python `round(x, n) if x else None`: None and 0.0 are both falsy
IfTruthy(x) == IF x = NULL \/ x = 0 THEN JNull ELSE JNum(x)

\* graph.py GraphClassifier._classify_concept on the mirror (nodes, rels);
\* nearest is the answer of _get_nearest_approved
\* the promotion test without its orphan term
graph_promotion_ready_ignoring_orphan(is_orphan, has_cycle, pct) ==
    ~has_cycle /\ pct.cnt * 1000 >= MIN_PAGERANK_PERCENTILE * pct.total

\* the promotion test without its percentile term
graph_promotion_ready_ignoring_percentile(is_orphan, has_cycle, pct) ==
    ~is_orphan /\ ~has_cycle

\* graph.py _classify_concept: not is_orphan and not has_cycle and
\* pagerank_percentile >= MIN_PAGERANK_PERCENTILE, the percentile being
\* pct.cnt / pct.total
graph_promotion_ready(is_orphan, has_cycle, pct) ==
    ~is_orphan /\ ~has_cycle /\ pct.cnt * 1000 >= MIN_PAGERANK_PERCENTILE * pct.total

GraphClassifyConcept(nodes, rels, concept_id, nearest) ==
    LET stats == _get_concept_stats(nodes, rels, concept_id)
    IN IF ~stats.exists
       THEN ClassificationResult("concept", concept_id, GRAPH_ID, VERSION,
                [error |-> JBool(TRUE), in_neo4j |-> JBool(FALSE)],
                [reason |-> JStr("Concept not found in Neo4j - run sync first")],
                JNull,
                Strs(<<"Concept must be synced to Neo4j before graph classification">>),
                JNull)
       ELSE
       LET has_cycle == _check_hierarchy_cycles(rels, concept_id)
           degree == stats.degree
           is_orphan == degree < MIN_CONNECTIONS
           \* min(degree / 10.0, 1.0), in thousandths
           connectivity == Min(RoundMilli(degree, CONNECTIVITY_CAP), 1000)
           pagerank == stats.pagerank
           pct == _get_pagerank_percentile(nodes, pagerank)
           promotion_ready == graph_promotion_ready(is_orphan, has_cycle, pct)
       IN ClassificationResult("concept", concept_id, GRAPH_ID, VERSION,
                [degree |-> JNum(degree),
                 connectivity |-> JNum(connectivity),
                 pagerank |-> IfTruthy(pagerank),
                 pagerank_percentile |-> JNum(RoundMilli(pct.cnt, pct.total)),
                 is_orphan |-> JBool(is_orphan),
                 has_hierarchy_cycle |-> JBool(has_cycle),
                 distance_to_approved |-> OrNone(nearest.distance),
                 promotion_ready |-> JBool(promotion_ready)],
                [community |-> OrNone(stats.community)]
                  @@ Opt(nearest.nearest_id # NULL, [nearest_approved |-> JNum(nearest.nearest_id)])
                  @@ Opt(is_orphan \/ has_cycle,
                         [issue |-> JStr(IF is_orphan THEN "orphan" ELSE "hierarchy_cycle")]),
                JNum(950),
                <<JStr("Degree: "), JNum(degree)>>
                  \o Strs(Cond(is_orphan, "ORPHAN: No connections to other concepts"))
                  \o Strs(Cond(has_cycle, "CYCLE: Part of broader/narrower cycle"))
                  \o (IF pagerank # NULL
                      THEN <<JStr("PageRank: "), JNum(RoundMilli(pct.cnt, pct.total))>> ELSE <<>>)
                  \o (IF nearest.nearest_id # NULL
                      THEN <<JStr("Nearest approved: "), JNum(nearest.nearest_id),
                             JNum(nearest.distance)>> ELSE <<>>),
                compute_input_hash(<<JNum(concept_id), JStr(stats.approval_status)>>))

\* a variant that issues every mirror query before looking at the stats
graph_queries_unguarded(nodes, rels, concept_id) ==
    <<"_get_concept_stats", "_check_hierarchy_cycles", "_get_nearest_approved",
      "_get_pagerank_percentile">>

\* graph.py _classify_concept: the mirror queries one call issues, in order
graph_queries(nodes, rels, concept_id) ==
    IF ~_get_concept_stats(nodes, rels, concept_id).exists
    THEN <<"_get_concept_stats">>
    ELSE <<"_get_concept_stats", "_check_hierarchy_cycles", "_get_nearest_approved",
           "_get_pagerank_percentile">>

\* graph.py GraphClassifier.classify: entities are skipped
GraphClassify(nodes, rels, target_type, target_id, nearest) ==
    IF target_type # "concept"
    THEN ClassificationResult(target_type, target_id, GRAPH_ID, VERSION,
             [skipped |-> JBool(TRUE)],
             [reason |-> JStr("Graph classification only supports concepts")],
             JNull, Strs(<<"Entity graph classification not implemented">>), JNull)
    ELSE GraphClassifyConcept(nodes, rels, target_id, nearest)

\* run_classifiers.py run_graph_classifier, one concept: three cypher-shell
\* queries (a failed one prints no digit line and leaves the count 0)
orch_graph_result(nodes, rels, c, cypher_ok) ==
    LET present == cypher_ok /\ c \in DOMAIN nodes
        degree == IF present THEN Degree(rels, c) ELSE 0
        broader_count == IF present
            THEN Cardinality({r \in rels : r.type = "BROADER" /\ r.src = c}) ELSE 0
        narrower_count == IF present
            THEN Cardinality({r \in rels : r.type = "BROADER" /\ r.dst = c}) ELSE 0
        is_hub == narrower_count >= HUB_NARROWER
        is_isolated == degree = 0
        is_leaf == degree > 0 /\ narrower_count = 0
    IN [classifier_id |-> GRAPH_ID,
        scores |-> [degree |-> JNum(degree), broader_count |-> JNum(broader_count),
                    narrower_count |-> JNum(narrower_count), is_hub |-> JBool(is_hub),
                    is_leaf |-> JBool(is_leaf), is_isolated |-> JBool(is_isolated)],
        labels |-> [role |-> JStr(IF is_hub THEN "hub"
                                  ELSE IF is_leaf THEN "leaf" ELSE "intermediate")],
        confidence |-> JNum(1000),
        rationale |-> <<JStr("Degree="), JNum(degree), JNum(narrower_count)>>]

(* --------------------------- vector strategies ------------------------- *)
EMBEDDING_ID == "embedding-coherence-v1"

LOCAL_ID == "embedding-local-v1"

ORCH_EMBEDDING_ID == "embedding-similarity-v1"

COHERENCE_THRESHOLD == 600

DUPLICATE_THRESHOLD == 950

ORPHAN_THRESHOLD == 700

LOCAL_NEUTRAL_COHERENCE == 500

ORCH_DUPLICATE == 950

ORCH_ORPHAN == 500

ORCH_COHERENT == 500

ORCH_TOP == 5

\* The stored vectors are unit vectors of the plane at the angles 0,
\* acos .97, acos .95, acos .8, acos .7, acos .6 and pi; CosTable[v][w] is
\* the cosine of the angle between v and w, in thousandths.
CosTable ==
    << <<1000, 970, 950, 800, 700, 600, -1000>>,
       <<970, 1000, 997, 922, 853, 776, -970>>,
       <<950, 997, 1000, 947, 888, 820, -950>>,
       <<800, 922, 947, 1000, 988, 960, -800>>,
       <<700, 853, 888, 988, 1000, 991, -700>>,
       <<600, 776, 820, 960, 991, 1000, -600>>,
       <<-1000, -970, -950, -800, -700, -600, 1000>> >>

VectorIds == 1..Len(CosTable)

\* pgvector `v <=> w`: the cosine distance
CosineDistance(v, w) == 1000 - CosTable[v][w]

\* the SQL expression 1 - (a <=> b)
Similarity(v, w) == 1000 - CosineDistance(v, w)

RECURSIVE SumOver(_, _)
SumOver(S, f) ==
    IF S = {} THEN 0
    ELSE LET e == CHOOSE e \in S : TRUE IN f[e] + SumOver(S \ {e}, f)

\* the other end of every concept_edge row touching c (SELECT DISTINCT CASE
\* WHEN src_id = c THEN dst_id ELSE src_id END), optionally by predicate
Related(edges, c, predicates) ==
    {IF e.src_id = c THEN e.dst_id ELSE e.src_id :
        e \in {q \in edges : (q.src_id = c \/ q.dst_id = c) /\ q.predicate \in predicates}}

Predicates == {"broader", "narrower", "related"}

\* the rows "ORDER BY target <=> other LIMIT 1" may return: one of the
\* candidates at the least distance, as (id, similarity); none gives `dflt`
Nearest(col, c, candidates, dflt) ==
    LET cs == IF c \in DOMAIN col /\ col[c] # NULL
              THEN {o \in candidates : o # c /\ col[o] # NULL} ELSE {}
        best == {o \in cs : \A p \in cs : CosineDistance(col[c], col[o]) <= CosineDistance(col[c], col[p])}
    IN IF cs = {} THEN {dflt}
       ELSE {[id |-> o, sim |-> Similarity(col[c], col[o])] : o \in best}

Column(concept, name) == [c \in DOMAIN concept |-> concept[c][name]]

\* embedding.py _compute_coherence: (sum, count) of the similarities to the
\* related concepts that have an embedding; AVG is sum/count
_compute_coherence(concept, edges, c) ==
    LET col == Column(concept, "embedding")
        rel == IF c \in DOMAIN col /\ col[c] # NULL
               THEN {r \in Related(edges, c, {e.predicate : e \in edges}) \cap DOMAIN col : col[r] # NULL}
               ELSE {}
        sum == SumOver(rel, [r \in rel |-> Similarity(col[c], col[r])])
    \* `if result and result[0]`: an average of NULL or of 0.0 gives (None, 0)
    IN IF rel = {} \/ sum = 0 THEN [sum |-> NULL, n |-> 0]
       ELSE [sum |-> sum, n |-> Cardinality(rel)]

\* embedding.py _find_nearest_approved
_find_nearest_approved(concept, c) ==
    Nearest(Column(concept, "embedding"), c,
            {a \in DOMAIN concept : concept[a].approval_status = "approved"
                                      /\ concept[a].provenance = "1p"},
            [id |-> NULL, sim |-> NULL])

\* embedding.py _find_potential_duplicate
_find_potential_duplicate(concept, c) ==
    Nearest(Column(concept, "embedding"), c, DOMAIN concept, [id |-> NULL, sim |-> 0])

\* embedding.py EmbeddingClassifier._classify_concept; nearest and dup are
\* the answers of the two ORDER BY ... LIMIT 1 queries
EmbeddingClassifyConcept(concept, edges, concept_id, content, nearest, dup) ==
    LET coh == _compute_coherence(concept, edges, concept_id)
        is_coherent == IF coh.n = 0 THEN TRUE ELSE coh.sum >= COHERENCE_THRESHOLD * coh.n
        is_potential_duplicate == dup.sim >= DUPLICATE_THRESHOLD
        is_orphan_by_embedding == nearest.sim # NULL /\ nearest.sim < ORPHAN_THRESHOLD
        promotion_ready == is_coherent /\ ~is_potential_duplicate /\ ~is_orphan_by_embedding
    IN ClassificationResult("concept", concept_id, EMBEDDING_ID, VERSION,
           [coherence |-> IF coh.n = 0 THEN JNull ELSE JNum(RoundDiv(coh.sum, coh.n)),
            related_concept_count |-> JNum(coh.n),
            nearest_approved_similarity |-> IfTruthy(nearest.sim),
            duplicate_similarity |-> IfTruthy(dup.sim),
            is_coherent |-> JBool(is_coherent),
            is_potential_duplicate |-> JBool(is_potential_duplicate),
            promotion_ready |-> JBool(promotion_ready)],
           Opt(nearest.id # NULL, [nearest_approved |-> JNum(nearest.id)])
             @@ Opt(is_potential_duplicate /\ dup.id # NULL, [potential_duplicate |-> JNum(dup.id)]),
           JNum(850),
           (IF coh.n # 0 THEN <<JStr("Coherence with related concepts: "), JNum(coh.n),
                                JNum(RoundDiv(coh.sum, 10 * coh.n))>> ELSE <<>>)
             \o (IF is_potential_duplicate
                 THEN <<JStr("Potential duplicate of "), OrNone(dup.id), JNum(RoundDiv(dup.sim, 10))>>
                 ELSE <<>>)
             \o (IF is_orphan_by_embedding
                 THEN <<JStr("Low similarity to approved concepts (nearest: "),
                        JNum(RoundDiv(nearest.sim, 10))>> ELSE <<>>)
             \o (IF coh.n = 0 /\ ~is_potential_duplicate /\ ~is_orphan_by_embedding
                 THEN Strs(<<"Embedding analysis complete, no issues found">>) ELSE <<>>),
           compute_input_hash(<<Fmt(content.preferred_label), Fmt(content.definition)>>))

\* embedding.py EmbeddingClassifier.classify, after ensure_embedding gave
\* `ensured`
EmbeddingClassify(concept, edges, target_type, target_id, content, ensured, nearest, dup) ==
    IF target_type # "concept"
    THEN ClassificationResult(target_type, target_id, EMBEDDING_ID, VERSION,
             [skipped |-> JBool(TRUE)],
             [reason |-> JStr("Embedding classification only supports concepts")],
             JNull, Strs(<<"Entity embedding classification not implemented">>), JNull)
    ELSE IF ~ensured
    THEN ClassificationResult(target_type, target_id, EMBEDDING_ID, VERSION,
             [error |-> JBool(TRUE)],
             [reason |-> JStr("Could not generate embedding")],
             JNull, Strs(<<"Failed to generate embedding for concept">>), JNull)
    ELSE EmbeddingClassifyConcept(concept, edges, target_id, content, nearest, dup)

\* embedding_local.py get_coherence_score: (coherence, related ids); the
\* coherence is kept as (sum, count) with AVG = sum/count
get_coherence_score(concept, edges, c) ==
    LET col == Column(concept, "embedding_local")
        related_ids == Related(edges, c, Predicates)
        rel == IF c \in DOMAIN col /\ col[c] # NULL
               THEN {r \in related_ids \cap DOMAIN col : col[r] # NULL} ELSE {}
        sum == SumOver(rel, [r \in rel |-> Similarity(col[c], col[r])])
    IN IF related_ids = {} THEN [sum |-> LOCAL_NEUTRAL_COHERENCE, n |-> 1, related |-> {}]
       \* `result[0] if result and result[0] else 0.0`
       ELSE IF rel = {} THEN [sum |-> 0, n |-> 1, related |-> related_ids]
       ELSE [sum |-> sum, n |-> Cardinality(rel), related |-> related_ids]

\* embedding_local.py get_duplicate_similarity
get_duplicate_similarity(concept, c) ==
    Nearest(Column(concept, "embedding_local"), c, DOMAIN concept, [id |-> NULL, sim |-> 0])

\* embedding_local.py get_nearest_approved
get_nearest_approved(concept, c) ==
    Nearest(Column(concept, "embedding_local"), c,
            {a \in DOMAIN concept : concept[a].approval_status = "approved"},
            [id |-> NULL, sim |-> 0])

\* embedding_local.py LocalEmbeddingClassifier.classify, after
\* ensure_embedding gave `ensured`
LocalEmbeddingClassify(concept, edges, target_type, target_id, content, ensured, nearest, dup) ==
    IF target_type # "concept" THEN Raise("ValueError")
    ELSE IF ~ensured
    THEN Return(ClassificationResult(target_type, target_id, LOCAL_ID, VERSION,
             [error |-> JStr("Could not generate embedding")],
             [status |-> JStr("error")],
             JNum(0), Strs(<<"Failed to generate or retrieve embedding">>), JNull))
    ELSE
    LET coh == get_coherence_score(concept, edges, target_id)
        low_coherence == coh.sum < COHERENCE_THRESHOLD * coh.n
        promotion_ready == ~low_coherence /\ dup.sim < DUPLICATE_THRESHOLD
                           /\ nearest.sim >= ORPHAN_THRESHOLD
    IN Return(ClassificationResult(target_type, target_id, LOCAL_ID, VERSION,
           [coherence |-> [avg |-> <<coh.sum, coh.n>>],
            duplicate_similarity |-> JNum(dup.sim),
            nearest_approved_similarity |-> JNum(nearest.sim),
            promotion_ready |-> JBool(promotion_ready),
            related_count |-> JNum(Cardinality(coh.related))],
           Opt(dup.sim > DUPLICATE_THRESHOLD, [potential_duplicate |-> OrNone(dup.id)])
             @@ Opt(nearest.sim < ORPHAN_THRESHOLD, [orphan_candidate |-> JBool(TRUE)])
             @@ Opt(nearest.id # NULL, [nearest_approved |-> OrNone(nearest.id)]),
           [avg |-> <<coh.sum, coh.n>>],
           (IF low_coherence THEN <<JStr("Low coherence with related concepts"),
                                    JNum(RoundDiv(coh.sum, 10 * coh.n))>> ELSE <<>>)
             \o (IF dup.sim > DUPLICATE_THRESHOLD
                 THEN <<JStr("Potential duplicate of "), OrNone(dup.id), JNum(RoundDiv(dup.sim, 10))>>
                 ELSE <<>>)
             \o (IF nearest.sim < ORPHAN_THRESHOLD
                 THEN <<JStr("Orphan candidate - low similarity to approved concepts"),
                        JNum(RoundDiv(nearest.sim, 10))>> ELSE <<>>)
             \o (IF ~low_coherence /\ dup.sim <= DUPLICATE_THRESHOLD /\ nearest.sim >= ORPHAN_THRESHOLD
                 THEN Strs(<<"Meets all embedding-based criteria">>) ELSE <<>>),
           compute_input_hash(<<Fmt(content.preferred_label), JStr(": "), Fmt(content.definition)>>)))

\* the rows of "ORDER BY c1.embedding <=> c2.embedding LIMIT 5": the ids of
\* the (at most ORCH_TOP) nearest other concepts that have an embedding; a
\* target without an embedding keeps all its rows, each with a NULL similarity
TopSimilar(col, c) ==
    LET cs == {o \in DOMAIN col : o # c /\ col[o] # NULL}
        d(o) == IF col[c] = NULL THEN 0 ELSE CosineDistance(col[c], col[o])
    IN IF Cardinality(cs) <= ORCH_TOP THEN cs
       ELSE CHOOSE T \in SUBSET cs :
              /\ Cardinality(T) = ORCH_TOP
              /\ \A t \in T, o \in cs \ T : d(t) <= d(o)

Max(a, b) == IF a > b THEN a ELSE b

RECURSIVE MaxOver(_, _, _)
MaxOver(S, f, floor) ==
    IF S = {} THEN floor
    ELSE LET e == CHOOSE e \in S : TRUE IN Max(f[e], MaxOver(S \ {e}, f, floor))

\* run_classifiers.py run_embedding_classifier, one concept.  psql prints a
\* NULL similarity as the empty string and float("") raises ValueError.
orch_embedding_result(concept, c, psql_ok) ==
    LET col == Column(concept, "embedding")
        rows == IF psql_ok THEN TopSimilar(col, c) ELSE {}
        sim == [o \in rows |-> Similarity(col[c], col[o])]
        n == Cardinality(rows)
        max_similarity == MaxOver(rows, sim, 0)
        \* the first row (nearest first) whose similarity exceeds every earlier one
        most_similar == IF max_similarity > 0
                        THEN JNum(CHOOSE o \in rows : sim[o] = max_similarity) ELSE JNull
        sum == SumOver(rows, sim)
        is_duplicate == max_similarity > ORCH_DUPLICATE
        is_orphan == max_similarity < ORCH_ORPHAN
        coherent == IF n = 0 THEN FALSE ELSE sum >= ORCH_COHERENT * n
    IN IF rows # {} /\ col[c] = NULL THEN Raise("ValueError")
       ELSE Return([classifier_id |-> ORCH_EMBEDDING_ID,
              scores |-> [max_similarity |-> JNum(max_similarity),
                          avg_similarity |-> JNum(IF n = 0 THEN 0 ELSE RoundDiv(sum, n)),
                          is_duplicate |-> JBool(is_duplicate),
                          is_orphan |-> JBool(is_orphan),
                          coherent |-> JBool(coherent)],
              labels |-> [most_similar |-> most_similar],
              confidence |-> JNum(900),
              rationale |-> <<JStr("Most similar to "), most_similar, JNum(max_similarity)>>])

(* ----------------------------- LLM strategy ---------------------------- *)
LLM_ID == "llm-quality-v1"

LLM_CONFIDENCE == 750

ConceptDimensions ==
    {"definition_quality", "naming_quality", "scope_appropriateness", "semantic_fit"}

IsDict(v) == DOMAIN v = {"dict"}

\* dict.get(key, default) on a parsed JSON object
Get(d, key, default) == IF key \in DOMAIN d THEN d[key] ELSE default

\* llm.py _evaluate_with_llm: the provider call and json.loads of its text.
\* reply.transport_ok says whether messages.create returned; reply.json is
\* the parsed text: [invalid |-> TRUE] when it is no JSON document.
_evaluate_with_llm(reply) ==
    IF ~reply.transport_ok THEN Raise("APIError")
    ELSE IF DOMAIN reply.json = {"invalid"} THEN Raise("JSONDecodeError")
    ELSE Return(reply.json)

LLMError(target_type, target_id, e) ==
    ClassificationResult(target_type, target_id, LLM_ID, VERSION,
        [error |-> JBool(TRUE)], [error_message |-> JStr(e)], JNull,
        <<JStr("LLM evaluation failed: "), JStr(e)>>, JNull)

\* the try block shared by llm.py _classify_concept and _classify_entity
LLMEvaluate(target_type, target_id, input_text, reply) ==
    LET out == _evaluate_with_llm(reply)
    IN IF Raised(out) THEN LLMError(target_type, target_id, out.raised)
       \* result.get on a JSON value that is no object
       ELSE IF ~IsDict(out.returned) THEN LLMError(target_type, target_id, "AttributeError")
       ELSE
       LET result == out.returned.dict
           scores == Get(result, "scores", [dict |-> EmptyDict])
       \* scores["promotion_ready"] = ... on a JSON value that is no object
       IN IF ~IsDict(scores) THEN LLMError(target_type, target_id, "TypeError")
          ELSE ClassificationResult(target_type, target_id, LLM_ID, VERSION,
                   [k \in DOMAIN scores.dict \cup {"promotion_ready"} |->
                       IF k = "promotion_ready"
                       THEN Get(result, "promotion_ready", JBool(FALSE))
                       ELSE scores.dict[k]],
                   Get(result, "labels", [dict |-> EmptyDict]),
                   JNum(LLM_CONFIDENCE),
                   <<Get(result, "rationale", JStr("LLM evaluation complete"))>>,
                   compute_input_hash(input_text))

\* llm.py LLMClassifier.classify
LLMClassify(target_type, target_id, content, reply) ==
    IF target_type = "concept"
    THEN LLMEvaluate("concept", target_id,
                     <<Fmt(content.preferred_label), Fmt(content.definition)>>, reply)
    ELSE IF target_type = "entity"
    THEN LLMEvaluate("entity", target_id,
                     <<Fmt(content.title), Fmt(content.asset_type)>>, reply)
    ELSE ClassificationResult(target_type, target_id, LLM_ID, VERSION,
             [error |-> JBool(TRUE)], [reason |-> JStr("Unknown target type")], JNull,
             Strs(<<"LLM classification not supported for this target type">>), JNull)

\* a variant whose input text also names the entity
RuleClassifyEntity_hashing_id(entity_id, content) ==
    LET title == content.title
        asset_type == content.asset_type
        primary_concept_id == content.primary_concept_id
        issues == Cond(~Truthy(title), "Missing title")
                   \o Cond(~Truthy(asset_type), "Missing asset_type")
                   \o Cond(~Truthy(primary_concept_id), "Orphan entity (no primary_concept_id)")
                   \o Cond(~content.filespec_uri, "Missing filespec.uri")
                   \o Cond(~content.creator, "Missing attribution.creator")
        completeness == (IF Truthy(title) THEN 200 ELSE 0)
                         + (IF Truthy(asset_type) THEN 100 ELSE 0)
                         + (IF Truthy(primary_concept_id) THEN 300 ELSE 0)
                         + (IF content.filespec_uri THEN 200 ELSE 0)
                         + (IF content.creator THEN 200 ELSE 0)
        promotion_ready == completeness >= 700 /\ ~IsNone(primary_concept_id)
    IN ClassificationResult("entity", entity_id, RULE_ID, VERSION,
           [completeness |-> JNum(completeness),
            is_orphan |-> JBool(IsNone(primary_concept_id)),
            has_filespec |-> JBool(content.filespec_uri),
            has_attribution |-> JBool(content.creator),
            promotion_ready |-> JBool(promotion_ready)],
           [issues |-> issues], JNum(1000),
           Strs(IF issues # <<>> THEN <<"Issues found: ">> \o issues
                                 ELSE <<"All validation rules passed">>),
           compute_input_hash(<<entity_id, Fmt(title), Fmt(asset_type), Fmt(primary_concept_id)>>))

(* ------------------------- Rule strategy, entities --------------------- *)
\* rules.py RuleBasedClassifier._classify_entity; content.filespec_uri and
\* content.creator are the truth values of `filespec and filespec.get("uri")`
\* and `attribution and attribution.get("creator")`
RuleClassifyEntity(entity_id, content) ==
    LET title == content.title
        asset_type == content.asset_type
        primary_concept_id == content.primary_concept_id
        issues == Cond(~Truthy(title), "Missing title")
                   \o Cond(~Truthy(asset_type), "Missing asset_type")
                   \o Cond(~Truthy(primary_concept_id), "Orphan entity (no primary_concept_id)")
                   \o Cond(~content.filespec_uri, "Missing filespec.uri")
                   \o Cond(~content.creator, "Missing attribution.creator")
        completeness == (IF Truthy(title) THEN 200 ELSE 0)
                         + (IF Truthy(asset_type) THEN 100 ELSE 0)
                         + (IF Truthy(primary_concept_id) THEN 300 ELSE 0)
                         + (IF content.filespec_uri THEN 200 ELSE 0)
                         + (IF content.creator THEN 200 ELSE 0)
        promotion_ready == completeness >= 700 /\ ~IsNone(primary_concept_id)
    IN ClassificationResult("entity", entity_id, RULE_ID, VERSION,
           [completeness |-> JNum(completeness),
            is_orphan |-> JBool(IsNone(primary_concept_id)),
            has_filespec |-> JBool(content.filespec_uri),
            has_attribution |-> JBool(content.creator),
            promotion_ready |-> JBool(promotion_ready)],
           [issues |-> issues], JNum(1000),
           Strs(IF issues # <<>> THEN <<"Issues found: ">> \o issues
                                 ELSE <<"All validation rules passed">>),
           compute_input_hash(<<Fmt(title), Fmt(asset_type), Fmt(primary_concept_id)>>))

\* rules.py RuleBasedClassifier.classify
RuleClassify(edges, target_type, target_id, content) ==
    IF target_type = "concept"
    THEN RuleClassifyConcept(target_id, content, check_relationships(edges, target_id))
    ELSE IF target_type = "entity"
    THEN Return(RuleClassifyEntity(target_id, content))
    ELSE Raise("ValueError")

(* --------------------------- classification table ---------------------- *)
\* the conflict target of run_classifiers.py save_classification
UniqueKey(row) ==
    <<row.target_type, row.target_id, row.classifier_id, row.classifier_version>>

RowsOf(table, key) == {r \in BagToSet(table) : UniqueKey(r) = key}

RECURSIVE CountRows(_, _)
CountRows(table, rows) ==
    IF rows = {} THEN 0
    ELSE LET r == CHOOSE r \in rows : TRUE
         IN CopiesIn(r, table) + CountRows(table, rows \ {r})

\* the unique index on (target_type, target_id, classifier_id,
\* classifier_version) that ON CONFLICT names: a second row with the key of
\* a stored row is rejected
UniqueViolation(table, row) == RowsOf(table, UniqueKey(row)) # {}

\* base.py save_result: a plain INSERT followed by commit.  `conn` is the
\* state of the classifier's psycopg connection ("ok", or "aborted" once a
\* statement failed in the open transaction: nothing rolls it back), `fault`
\* what the environment does to the statement.
save_result(table, conn, result, fault) ==
    IF conn = "aborted"
    THEN [table |-> table, conn |-> "aborted", raised |-> "InFailedSqlTransaction"]
    ELSE IF fault = "save_stmt"
    THEN [table |-> table, conn |-> "aborted", raised |-> "DatabaseError"]
    \* a lost connection is closed: the lazy `conn` property reconnects
    ELSE IF fault = "save_conn"
    THEN [table |-> table, conn |-> "ok", raised |-> "OperationalError"]
    ELSE IF UniqueViolation(table, result)
    THEN [table |-> table, conn |-> "aborted", raised |-> "UniqueViolation"]
    ELSE [table |-> table (+) SetToBag({result}), conn |-> "ok", raised |-> "no"]

\* save_classification with input_hash added to the DO UPDATE SET list
save_classification_sets_hash(table, concept_id, result, psql_ok) ==
    LET row == ClassificationResult("concept", concept_id, result.classifier_id, VERSION,
                   result.scores, result.labels, result.confidence, result.rationale, JNull)
        old == RowsOf(table, UniqueKey(row))
    IN IF ~psql_ok THEN [table |-> table, ok |-> FALSE]
       ELSE [table |-> (table (-) SetToBag(old)) (+) SetToBag({row}), ok |-> TRUE]

\* run_classifiers.py save_classification: INSERT ... ON CONFLICT (key) DO
\* UPDATE SET scores, labels, rationale, each in a psql process of its own;
\* input_hash is not among the inserted columns
save_classification(table, concept_id, result, psql_ok) ==
    LET row == ClassificationResult("concept", concept_id, result.classifier_id, VERSION,
                   result.scores, result.labels, result.confidence, result.rationale, JNull)
        old == RowsOf(table, UniqueKey(row))
        updated == {[r EXCEPT !.scores = row.scores, !.labels = row.labels,
                              !.rationale = row.rationale] : r \in old}
    IN IF ~psql_ok THEN [table |-> table, ok |-> FALSE]
       ELSE IF old = {} THEN [table |-> table (+) SetToBag({row}), ok |-> TRUE]
       ELSE [table |-> (table (-) SetToBag(old)) (+) SetToBag(updated), ok |-> TRUE]

\* ensure_embedding whose UPDATE also approves the concept
ensure_embedding_approving(concept, c, conn, fault, v) ==
    IF conn = "aborted"
    THEN [concept |-> concept, conn |-> conn, raised |-> "InFailedSqlTransaction", ensured |-> FALSE]
    ELSE IF fault = "classify_db"
    THEN [concept |-> concept, conn |-> "aborted", raised |-> "DatabaseError", ensured |-> FALSE]
    ELSE IF concept[c].embedding # NULL
    THEN [concept |-> concept, conn |-> conn, raised |-> "no", ensured |-> TRUE]
    ELSE IF fault = "provider"
    THEN [concept |-> concept, conn |-> conn, raised |-> "no", ensured |-> FALSE]
    ELSE [concept |-> [concept EXCEPT ![c].embedding = v, ![c].approval_status = "approved"],
          conn |-> conn, raised |-> "no", ensured |-> TRUE]

\* a variant that reports success without writing the vector to the row
ensure_embedding_unsaved(concept, c, conn, fault, v) ==
    IF conn = "aborted"
    THEN [concept |-> concept, conn |-> conn, raised |-> "InFailedSqlTransaction", ensured |-> FALSE]
    ELSE IF fault = "classify_db"
    THEN [concept |-> concept, conn |-> "aborted", raised |-> "DatabaseError", ensured |-> FALSE]
    ELSE IF concept[c].embedding # NULL
    THEN [concept |-> concept, conn |-> conn, raised |-> "no", ensured |-> TRUE]
    ELSE IF fault = "provider"
    THEN [concept |-> concept, conn |-> conn, raised |-> "no", ensured |-> FALSE]
    ELSE [concept |-> concept, conn |-> conn, raised |-> "no", ensured |-> TRUE]

(* ----------------------- classify against the stores -------------------- *)
\* embedding.py ensure_embedding.  The SELECT is outside the try block; the
\* provider call and the UPDATE are inside it.  v is the provider's vector.
ensure_embedding(concept, c, conn, fault, v) ==
    IF conn = "aborted"
    THEN [concept |-> concept, conn |-> conn, raised |-> "InFailedSqlTransaction", ensured |-> FALSE]
    ELSE IF fault = "classify_db"
    THEN [concept |-> concept, conn |-> "aborted", raised |-> "DatabaseError", ensured |-> FALSE]
    ELSE IF concept[c].embedding # NULL
    THEN [concept |-> concept, conn |-> conn, raised |-> "no", ensured |-> TRUE]
    ELSE IF fault = "provider"
    THEN [concept |-> concept, conn |-> conn, raised |-> "no", ensured |-> FALSE]
    ELSE [concept |-> [concept EXCEPT ![c].embedding = v], conn |-> conn,
          raised |-> "no", ensured |-> TRUE]

\* embedding_local.py ensure_embedding: get_embedding returns None when curl
\* fails, times out or prints no JSON
\* a variant without the SELECT: it generates and stores a vector every time
local_ensure_embedding_regenerating(concept, c, conn, fault, v) ==
    IF conn = "aborted"
    THEN [concept |-> concept, conn |-> conn, raised |-> "InFailedSqlTransaction", ensured |-> FALSE]
    ELSE IF fault = "classify_db"
    THEN [concept |-> concept, conn |-> "aborted", raised |-> "DatabaseError", ensured |-> FALSE]
    ELSE IF fault = "provider"
    THEN [concept |-> concept, conn |-> conn, raised |-> "no", ensured |-> FALSE]
    ELSE [concept |-> [concept EXCEPT ![c].embedding_local = v], conn |-> conn,
          raised |-> "no", ensured |-> TRUE]

local_ensure_embedding(concept, c, conn, fault, v) ==
    IF conn = "aborted"
    THEN [concept |-> concept, conn |-> conn, raised |-> "InFailedSqlTransaction", ensured |-> FALSE]
    ELSE IF fault = "classify_db"
    THEN [concept |-> concept, conn |-> "aborted", raised |-> "DatabaseError", ensured |-> FALSE]
    ELSE IF concept[c].embedding_local # NULL
    THEN [concept |-> concept, conn |-> conn, raised |-> "no", ensured |-> TRUE]
    ELSE IF fault = "provider"
    THEN [concept |-> concept, conn |-> conn, raised |-> "no", ensured |-> FALSE]
    ELSE [concept |-> [concept EXCEPT ![c].embedding_local = v], conn |-> conn,
          raised |-> "no", ensured |-> TRUE]

Dims(n) == [dict |-> [k \in ConceptDimensions |-> JNum(n)]]

NoLabels == [dict |-> [needs_work |-> <<>>, suggested_improvements |-> <<>>]]

\* a well-formed reply of the LLM provider
GoodReply ==
    [transport_ok |-> TRUE,
     json |-> [dict |-> [scores |-> Dims(800), labels |-> NoLabels,
                         rationale |-> JStr("clear"), promotion_ready |-> JBool(TRUE)]]]

Strategies == {"rule", "embedding", "local", "graph", "llm"}

\* the faults the environment can inject into one classify_and_save
FaultsFor(s) ==
    {"none", "save_stmt", "save_conn"}
      \cup (IF s = "graph" THEN {} ELSE {"classify_db"})
      \cup (IF s = "rule" THEN {} ELSE {"provider"})

NoNeighbour == [id |-> NULL, sim |-> 0]

\* BaseClassifier.classify of strategy s on target t of type tt with
\* the dict `content`: the set of (outcome, concept table, connection) the
\* call can end in.  Only the concept paths query the relational store.
ClassifyOutcomes(s, concept, edges, nodes, rels, conn, tt, t, content, fault, vectors, replies) ==
    LET fail(e, cn) == {[outcome |-> Raise(e), concept |-> concept, conn |-> cn]}
        pure(o) == {[outcome |-> o, concept |-> concept, conn |-> conn]}
        db_down == tt = "concept" /\ s # "graph"
                   /\ (conn = "aborted" \/ fault = "classify_db")
        db_error == IF conn = "aborted" THEN "InFailedSqlTransaction" ELSE "DatabaseError"
    IN IF db_down /\ s \in {"rule", "llm"} THEN fail(db_error, "aborted")
       ELSE CASE s = "rule" -> pure(RuleClassify(edges, tt, t, content))
         [] s = "embedding" /\ tt # "concept" ->
              pure(Return(EmbeddingClassify(concept, edges, tt, t, content, FALSE,
                                            NoNeighbour, NoNeighbour)))
         [] s = "embedding" /\ tt = "concept" ->
              UNION {{[outcome |-> IF e.raised # "no" THEN Raise(e.raised)
                                   ELSE Return(EmbeddingClassify(e.concept, edges, "concept", t,
                                                                 content, e.ensured, n, d)),
                       concept |-> e.concept, conn |-> e.conn] :
                         n \in _find_nearest_approved(e.concept, t),
                         d \in _find_potential_duplicate(e.concept, t)} :
                     e \in {ensure_embedding(concept, t, conn, fault, v) : v \in vectors}}
         [] s = "local" /\ tt # "concept" ->
              pure(LocalEmbeddingClassify(concept, edges, tt, t, content, FALSE,
                                          NoNeighbour, NoNeighbour))
         [] s = "local" /\ tt = "concept" ->
              UNION {{[outcome |-> IF e.raised # "no" THEN Raise(e.raised)
                                   ELSE LocalEmbeddingClassify(e.concept, edges, "concept", t,
                                                               content, e.ensured, n, d),
                       concept |-> e.concept, conn |-> e.conn] :
                         n \in get_nearest_approved(e.concept, t),
                         d \in get_duplicate_similarity(e.concept, t)} :
                     e \in {local_ensure_embedding(concept, t, conn, fault, v) : v \in vectors}}
         [] s = "graph" /\ tt # "concept" ->
              pure(Return(GraphClassify(nodes, rels, tt, t, NoNeighbour)))
         [] s = "graph" /\ tt = "concept" ->
              IF fault = "provider" THEN fail("ServiceUnavailable", conn)
              ELSE {[outcome |-> Return(GraphClassify(nodes, rels, "concept", t, n)),
                     concept |-> concept, conn |-> conn] :
                       n \in _get_nearest_approved(nodes, rels, t)}
         [] s = "llm" ->
              {[outcome |-> Return(LLMClassify(tt, t, content,
                                IF fault = "provider"
                                THEN [transport_ok |-> FALSE, json |-> [invalid |-> TRUE]]
                                ELSE r)),
                concept |-> concept, conn |-> conn] : r \in replies}

(* -------------------------------- state -------------------------------- *)
VARIABLES
    concept,         \* the concept table: id -> row
    concept_edge,    \* the concept_edge table: a set of rows
    neo_nodes,       \* the Neo4j mirror: id -> properties of the Concept node
    neo_rels,        \* the Neo4j mirror: relationships [src, type, dst]
    classification,  \* the classification table: a bag of rows
    conn,            \* the running classifier's psycopg connection
    pc,              \* where the running batch is
    run,             \* the running batch: runner, strategy, tier, targets, i
    runs,            \* batches started so far
    faults,          \* faults injected so far
    log,             \* history: the steps of the running batch
    last,            \* history: the last classify or save call
    hash0            \* history: per key, the input_hash first persisted

vars == <<concept, concept_edge, neo_nodes, neo_rels, classification, conn, pc,
          run, runs, faults, log, last, hash0>>

DDD == <<104, 104, 104>>

\* a text of n characters that starts with `head`
Fill(head, n) == head \o [i \in 1..(n - Len(head)) |-> 24]

\* concept 1 restates its label in a short definition; the others do not
SeedContent(c) ==
    [preferred_label |-> JText(DDD),
     definition |-> JText(IF c = 1 THEN Fill(<<4, 4, 4>>, 30) ELSE Fill(<<1, 2, 3>>, 30))]

SeedVector(c) == ((c - 1) % Len(CosTable)) + 1

GeneratedVectors == {3}

ConceptRow(c, status, provenance, content, embedding, embedding_local, created_at) ==
    [approval_status |-> status, provenance |-> provenance,
     preferred_label |-> content.preferred_label, definition |-> content.definition,
     embedding |-> embedding, embedding_local |-> embedding_local,
     created_at |-> created_at]

\* the mirror after sync_neo4j: every concept a node, every edge a relationship
Synced(table, edges) ==
    [nodes |-> [c \in DOMAIN table |->
                  [approval_status |-> table[c].approval_status, pagerank |-> c,
                   community |-> NULL]],
     rels |-> {[src |-> e.src_id, type |-> "BROADER", dst |-> e.dst_id] : e \in edges}]

NoRun == [runner |-> "none", strategy |-> "none", tier |-> "none", store |-> "ok", targets |-> <<>>, i |-> 1]

InitHistory ==
    /\ classification = EmptyBag
    /\ conn = "ok"
    /\ pc = "idle"
    /\ run = NoRun
    /\ runs = 0
    /\ faults = 0
    /\ log = <<>>
    /\ last = [call |-> "none"]
    /\ hash0 = {}

Init ==
    /\ \E status \in [ConceptIds -> {"pending", "approved"}],
          has \in [ConceptIds -> BOOLEAN] :
          concept = [c \in ConceptIds |->
                       ConceptRow(c, status[c], "1p", SeedContent(c),
                                  IF has[c] THEN SeedVector(c) ELSE NULL, NULL,
                                  NumConcepts + 1 - c)]
    /\ concept_edge \in {{}, {[src_id |-> 1, dst_id |-> NumConcepts, predicate |-> "broader"]}}
    /\ \E synced \in BOOLEAN :
          LET m == IF synced THEN Synced(concept, concept_edge)
                   ELSE [nodes |-> EmptyDict, rels |-> {}]
          IN neo_nodes = m.nodes /\ neo_rels = m.rels
    /\ InitHistory

(* ------------------------------ batch helpers -------------------------- *)
Idle == pc \in {"idle", "done", "crashed", "aborted"}

Step(tier, target, classified, saved, fault, fresh, kept) ==
    [tier |-> tier, target |-> target, classified |-> classified, saved |-> saved,
     fault |-> fault, fresh |-> fresh, kept |-> kept]

\* the first input_hash persisted under each key, and whether a later save
\* reached the table for that key
NoteSave(h, table, row, reached) ==
    IF ~reached THEN h
    ELSE IF \E e \in h : e.key = UniqueKey(row)
    THEN {IF e.key = UniqueKey(row) THEN [e EXCEPT !.again = TRUE] ELSE e : e \in h}
    ELSE IF RowsOf(table, UniqueKey(row)) = {} THEN h
    ELSE h \cup {[key |-> UniqueKey(row), again |-> FALSE,
                  hash |-> (CHOOSE r \in RowsOf(table, UniqueKey(row)) : TRUE).input_hash]}

\* base.py classify_pending_concepts, up to the loop: a new classifier (its
\* connection not yet opened) fetches the pending concepts; psycopg.connect
\* raises out of the helper when the store is unreachable
HelperStart(s) ==
    /\ Idle /\ runs < MaxRuns
    /\ runs' = runs + 1
    /\ \E db_ok \in BOOLEAN :
          /\ db_ok \/ faults < MaxFaults
          /\ faults' = IF db_ok THEN faults ELSE faults + 1
          /\ run' = [runner |-> "helper", strategy |-> s, tier |-> s,
                     store |-> IF db_ok THEN "ok" ELSE "unreachable",
                     targets |-> IF db_ok THEN apply_limit(get_pending_concepts(concept), NULL)
                                 ELSE <<>>,
                     i |-> 1]
          /\ pc' = IF db_ok THEN "helper" ELSE "aborted"
    /\ conn' = "ok"
    /\ log' = <<>>
    /\ last' = [call |-> "none"]
    /\ UNCHANGED <<concept, concept_edge, neo_nodes, neo_rels, classification, hash0>>

\* base.py classify_pending_concepts, one iteration: classify_and_save inside
\* try/except Exception
HelperStep ==
    /\ pc = "helper" /\ run.i <= Len(run.targets)
    /\ LET t == run.targets[run.i]
           s == run.strategy
       IN \E fault \in FaultsFor(s) :
          /\ fault = "none" \/ faults < MaxFaults
          /\ faults' = IF fault = "none" THEN faults ELSE faults + 1
          /\ \E o \in ClassifyOutcomes(s, concept, concept_edge, neo_nodes, neo_rels, conn,
                                       "concept", t, row_content(concept, t), fault,
                                       GeneratedVectors, {GoodReply}) :
             /\ concept' = o.concept
             /\ IF Raised(o.outcome)
                THEN /\ conn' = o.conn
                     /\ last' = [call |-> "none"]
                     /\ log' = Append(log, Step(s, t, FALSE, "skipped", fault, FALSE, TRUE))
                     /\ UNCHANGED <<classification, hash0>>
                ELSE LET result == o.outcome.returned
                         sv == save_result(classification, o.conn, result, fault)
                     IN /\ classification' = sv.table
                        /\ conn' = sv.conn
                        /\ last' = [call |-> "save_result", result |-> result, fault |-> fault,
                                    conn |-> o.conn, raised |-> sv.raised]
                        /\ hash0' = NoteSave(hash0, sv.table, result,
                                             o.conn = "ok" /\ fault \notin {"save_stmt", "save_conn"})
                        /\ log' = Append(log, Step(s, t, TRUE,
                                     IF sv.raised = "no" THEN "persisted" ELSE "failed", fault,
                                     ~UniqueViolation(classification, result),
                                     sv.table = classification))
    /\ run' = [run EXCEPT !.i = run.i + 1]
    /\ UNCHANGED <<concept_edge, neo_nodes, neo_rels, pc, runs>>

\* base.py classify_pending_concepts returns the ids
HelperFinish ==
    /\ pc = "helper" /\ run.i > Len(run.targets)
    /\ pc' = "done"
    /\ UNCHANGED <<concept, concept_edge, neo_nodes, neo_rels, classification, conn,
                   run, runs, faults, log, last, hash0>>

(* ------------------------------ orchestrator --------------------------- *)
\* main with the graph tier's `if` moved above the embedding tier's
TierOrderGraphFirst == <<"rules", "graph", "embedding">>

\* run_classifiers.py main: the tiers in the order of its three `if`s
TierOrder == <<"rules", "embedding", "graph">>

TierChoices == {"rules", "embedding", "graph", "all"}

\* run_classifiers.py main: the tier that runs after `cur` under --tier sel
\* ("start" before the first `if`, "done" at print_summary)
NextTier(sel, cur) ==
    LET at == IF cur = "start" THEN 0
              ELSE CHOOSE k \in DOMAIN TierOrder : TierOrder[k] = cur
        later == {k \in DOMAIN TierOrder : k > at /\ sel \in {TierOrder[k], "all"}}
    IN IF later = {} THEN "done"
       ELSE TierOrder[CHOOSE k \in later : \A j \in later : k <= j]

OrchFaults == {"none", "query", "save"}

OrchRow(c, result) ==
    ClassificationResult("concept", c, result.classifier_id, VERSION, result.scores,
                         result.labels, result.confidence, result.rationale, JNull)

\* run_classifiers.py main, up to the first tier: fetch the pending concepts
\* once (no --limit)
OrchStart(sel) ==
    /\ Idle /\ runs < MaxRuns
    /\ runs' = runs + 1
    /\ \E psql_ok \in BOOLEAN :
          /\ psql_ok \/ faults < MaxFaults
          /\ faults' = IF psql_ok THEN faults ELSE faults + 1
          /\ run' = [runner |-> "orchestrator", strategy |-> "none", tier |-> sel,
                     store |-> IF psql_ok THEN "ok" ELSE "unreachable",
                     targets |-> apply_limit(orch_get_pending_concepts(concept, psql_ok), NULL),
                     i |-> 1]
    /\ pc' = NextTier(sel, "start")
    /\ log' = <<>>
    /\ last' = [call |-> "none"]
    /\ UNCHANGED <<concept, concept_edge, neo_nodes, neo_rels, classification, conn, hash0>>

\* what one iteration of a tier's loop does with the result it computed
OrchSave(tier, t, result, fault) ==
    LET row == OrchRow(t, result)
        sv == save_classification(classification, t, result, fault # "save")
    IN /\ classification' = sv.table
       /\ last' = [call |-> "save_classification", result |-> row, fault |-> fault,
                   conn |-> "ok", raised |-> IF sv.ok THEN "no" ELSE "psql"]
       /\ hash0' = NoteSave(hash0, sv.table, row, sv.ok)
       /\ log' = Append(log, Step(tier, t, TRUE, IF sv.ok THEN "persisted" ELSE "failed",
                                  fault, ~UniqueViolation(classification, row),
                                  sv.table = classification))

OrchFault(fault) ==
    /\ fault = "none" \/ faults < MaxFaults
    /\ faults' = IF fault = "none" THEN faults ELSE faults + 1

\* run_classifiers.py run_rules_classifier, one iteration
OrchRules ==
    /\ pc = "rules" /\ run.i <= Len(run.targets)
    /\ LET t == run.targets[run.i]
       IN \E fault \in OrchFaults :
          /\ OrchFault(fault)
          /\ OrchSave("rules", t,
                 classify_concept_rules(orch_concept(concept, t),
                     fault # "query" /\ check_relationships(concept_edge, t)), fault)
    /\ run' = [run EXCEPT !.i = run.i + 1]
    /\ UNCHANGED <<concept, concept_edge, neo_nodes, neo_rels, conn, pc, runs>>

\* run_classifiers.py run_embedding_classifier, one iteration; the float()
\* of an empty similarity column is not caught anywhere up to main
OrchEmbedding ==
    /\ pc = "embedding" /\ run.i <= Len(run.targets)
    /\ LET t == run.targets[run.i]
       IN \E fault \in OrchFaults :
          /\ OrchFault(fault)
          /\ LET o == orch_embedding_result(concept, t, fault # "query")
             IN IF Raised(o)
                THEN /\ pc' = "crashed"
                     /\ last' = [call |-> "none"]
                     /\ log' = Append(log, Step("embedding", t, FALSE, "skipped", fault,
                                                FALSE, TRUE))
                     /\ UNCHANGED <<classification, hash0>>
                ELSE /\ OrchSave("embedding", t, o.returned, fault)
                     /\ pc' = pc
    /\ run' = [run EXCEPT !.i = run.i + 1]
    /\ UNCHANGED <<concept, concept_edge, neo_nodes, neo_rels, conn, runs>>

\* run_classifiers.py run_graph_classifier, one iteration
OrchGraph ==
    /\ pc = "graph" /\ run.i <= Len(run.targets)
    /\ LET t == run.targets[run.i]
       IN \E fault \in OrchFaults :
          /\ OrchFault(fault)
          /\ OrchSave("graph", t,
                 orch_graph_result(neo_nodes, neo_rels, t, fault # "query"), fault)
    /\ run' = [run EXCEPT !.i = run.i + 1]
    /\ UNCHANGED <<concept, concept_edge, neo_nodes, neo_rels, conn, pc, runs>>

\* run_classifiers.py main: a tier's function returns and the next `if` is
\* reached
OrchAdvance ==
    /\ pc \in {"rules", "embedding", "graph"} /\ run.i > Len(run.targets)
    /\ pc' = NextTier(run.tier, pc)
    /\ run' = [run EXCEPT !.i = 1]
    /\ UNCHANGED <<concept, concept_edge, neo_nodes, neo_rels, classification, conn,
                   runs, faults, log, last, hash0>>

(* ------------------------- properties of the runs ---------------------- *)
SaveCalls == {"save_result", "save_classification"}

SaveFaults == {"save_stmt", "save_conn", "save"}

Stored(key) == RowsOf(classification, key)

SameVerdict(a, b) ==
    /\ a.scores = b.scores /\ a.labels = b.labels
    /\ a.confidence = b.confidence /\ a.rationale = b.rationale

\* C1 (as claimed): the store holds at most one row per key, and a save that
\* reaches the store on a healthy connection succeeds and leaves under the
\* Result's key exactly the Result just saved, whether or not a row with
\* that key was there before.
C1_SaveReplaces ==
    /\ \A r \in BagToSet(classification) :
          CountRows(classification, Stored(UniqueKey(r))) = 1
    /\ (last.call \in SaveCalls /\ last.fault \notin SaveFaults /\ last.conn = "ok")
          => /\ last.raised = "no"
             /\ \A r \in Stored(UniqueKey(last.result)) : SameVerdict(r, last.result)

\* a save through save_result is rejected and the row stored under its key
\* keeps a verdict other than the one just computed
C1_Witness ==
    /\ last.call = "save_result" /\ last.raised = "UniqueViolation"
    /\ \E r \in Stored(UniqueKey(last.result)) : ~SameVerdict(r, last.result)

\* the tiers the running batch selected
RunTiers ==
    IF run.runner = "helper" THEN {run.strategy}
    ELSE {TierOrder[k] : k \in {j \in DOMAIN TierOrder : run.tier \in {TierOrder[j], "all"}}}

Attempts(tier, target) ==
    Cardinality({j \in DOMAIN log : log[j].tier = tier /\ log[j].target = target})

\* C4 (as claimed): a batch run never ends early; when it has ended, each
\* fetched target has been attempted exactly once by each selected strategy.
C4_EveryTargetOnce ==
    /\ pc # "crashed"
    /\ pc = "done" =>
          \A tier \in RunTiers : \A k \in DOMAIN run.targets :
             Attempts(tier, run.targets[k]) = 1

\* the orchestrator died in its embedding tier with targets left and the
\* graph tier not started
C4_Witness ==
    /\ pc = "crashed" /\ run.tier = "all"
    /\ \E k \in DOMAIN run.targets : Attempts("embedding", run.targets[k]) = 0
    /\ \A k \in DOMAIN run.targets : Attempts("graph", run.targets[k]) = 0

\* C5 (as claimed): a save that fails leaves the store as it was, and every
\* target classified later in the same run, with nothing going wrong in its
\* own step and no row stored under its key, has its Result persisted.
C5_FailedSaveIsolated ==
    \A j \in DOMAIN log :
       log[j].saved = "failed" =>
          /\ log[j].kept
          /\ \A k \in DOMAIN log :
                (k > j /\ log[k].classified /\ log[k].fault = "none" /\ log[k].fresh)
                   => log[k].saved = "persisted"

\* after a failed save, a later target with a new key and no fault of its
\* own is not persisted
C5_Witness ==
    \E j, k \in DOMAIN log :
       /\ j < k /\ log[j].saved = "failed"
       /\ log[k].classified /\ log[k].fault = "none" /\ log[k].fresh
       /\ log[k].saved = "failed"

TierRank(tier) ==
    CASE tier = "rules" -> 1 [] tier = "embedding" -> 2 [] tier = "graph" -> 3
      [] OTHER -> 4

\* the targets tier `tier` has processed so far, in the order it did
RECURSIVE TierTargets(_, _)
TierTargets(steps, tier) ==
    IF steps = <<>> THEN <<>>
    ELSE IF Head(steps).tier = tier THEN <<Head(steps).target>> \o TierTargets(Tail(steps), tier)
    ELSE TierTargets(Tail(steps), tier)

IsPrefix(a, b) == Len(a) <= Len(b) /\ \A k \in DOMAIN a : a[k] = b[k]

\* C6 (amended): an orchestrator run works through the list it fetched once;
\* the tiers that run are among rules, embedding and graph, in that order
\* (there is no LLM tier); every step of an earlier tier precedes every step
\* of a later one; a single-tier selector runs that tier only.
C6_TierOrder ==
    run.runner = "orchestrator" =>
       /\ \A j \in DOMAIN log :
             /\ log[j].tier \in {"rules", "embedding", "graph"}
             /\ run.tier \in {log[j].tier, "all"}
       /\ \A j, k \in DOMAIN log : j < k => TierRank(log[j].tier) <= TierRank(log[k].tier)
       /\ \A tier \in {"rules", "embedding", "graph"} :
             IsPrefix(TierTargets(log, tier), run.targets)
       /\ pc = "done" => \A tier \in {"rules", "embedding", "graph"} :
             TierTargets(log, tier) =
                IF run.tier \in {tier, "all"} THEN run.targets ELSE <<>>

\* C6 (as claimed): with selector 'all' the run also ends with an LLM tier
\* over the fetched targets, after the graph tier.
C6_WithLLMTier ==
    /\ C6_TierOrder
    /\ (pc = "done" /\ run.runner = "orchestrator" /\ run.tier = "all")
          => TierTargets(log, "llm") = run.targets

C6_Witness ==
    /\ pc = "done" /\ run.runner = "orchestrator" /\ run.tier = "all"
    /\ Len(run.targets) >= 2
    /\ Len(log) = 3 * Len(run.targets)
    /\ \A j \in DOMAIN log : log[j].saved = "persisted"

\* C7: no step of the engine changes the approval_status of a concept.
C7_ApprovalStatusFrame ==
    [][\A c \in ConceptIds : concept'[c].approval_status = concept[c].approval_status]_vars

\* a helper run of the hosted vector strategy generated and stored the
\* embedding of a pending concept, and its Result was persisted
C7_Witness ==
    /\ run.runner = "helper" /\ run.strategy = "embedding"
    /\ \E j \in DOMAIN log :
          /\ log[j].saved = "persisted"
          /\ concept[log[j].target].embedding \in GeneratedVectors
          /\ concept[log[j].target].approval_status = "pending"

\* C9: once a Result is stored under a key, every later save under that key
\* leaves exactly one row there, with the input_hash first stored.
C9_IdempotentRerun ==
    \A e \in hash0 :
       /\ CountRows(classification, Stored(e.key)) = 1
       /\ \A r \in Stored(e.key) : r.input_hash = e.hash

\* a Result stored with a hash by a strategy class, and a later save under
\* its key
C9_Witness ==
    \E e \in hash0 : e.again /\ ~IsNone(e.hash) /\ Stored(e.key) # {}

(* ---------------------------- direct classify calls -------------------- *)
TargetTypes == {"concept", "entity", "relation"}

\* the content dicts a caller hands to strategy s's classify (the Graph
\* Strategy never reads its content argument: one dict stands for all; the
\* vector strategies only print label and definition into a text)
Contents(s, target_type) ==
    CASE s = "graph" -> {[preferred_label |-> JText(DDD), definition |-> JNull]}
      [] s \in {"embedding", "local"} /\ target_type = "concept" ->
           {[preferred_label |-> JText(DDD), definition |-> JNull],
            [preferred_label |-> JNull, definition |-> JText(Fill(<<1, 2, 3>>, 60))]}
      [] s = "rule" /\ target_type = "concept" ->
           {[preferred_label |-> l, definition |-> d] :
               l \in {JNull, JText(<<>>), JText(DDD)},
               d \in {JNull, JText(<<>>), JText(Fill(<<1, 2, 3>>, 15)),
                      JText(Fill(<<1, 2, 3>>, MIN_DEFINITION_LEN - 1)),
                      JText(Fill(<<1, 2, 3>>, MIN_DEFINITION_LEN)),
                      JText(Fill(<<4, 4, 4>>, 30)), JText(Fill(<<1, 2, 3>>, 60)),
                      JText(Fill(<<1, 2, 3>>, MAX_DEFINITION_LEN)),
                      JText(Fill(<<1, 2, 3>>, MAX_DEFINITION_LEN + 1))}}
      [] target_type = "concept" ->
           {[preferred_label |-> l, definition |-> d] :
               l \in {JNull, JText(DDD)},
               d \in {JNull, JText(Fill(<<4, 4, 4>>, 30)), JText(Fill(<<1, 2, 3>>, 60))}}
      [] target_type = "entity" ->
           {[title |-> ti, asset_type |-> JText(<<6>>), primary_concept_id |-> p,
             filespec_uri |-> f, creator |-> f] :
               ti \in {JNull, JText(DDD)}, p \in {JNull, JText(<<>>), JText(<<3>>)},
               f \in BOOLEAN}
      [] OTHER -> {[preferred_label |-> JText(DDD), definition |-> JNull]}

\* what the LLM provider may answer
Replies ==
    {GoodReply,
     [transport_ok |-> FALSE, json |-> [invalid |-> TRUE]],
     [transport_ok |-> TRUE, json |-> [invalid |-> TRUE]],
     [transport_ok |-> TRUE, json |-> JStr("ok")],
     [transport_ok |-> TRUE,
      json |-> [dict |-> [scores |-> Dims(800), promotion_ready |-> JStr("yes")]]],
     [transport_ok |-> TRUE,
      json |-> [dict |-> [labels |-> NoLabels, rationale |-> JStr("clear"),
                          promotion_ready |-> JBool(TRUE)]]]}

\* only the LLM Strategy talks to the provider
RepliesFor(s) == IF s = "llm" THEN Replies ELSE {GoodReply}

\* one call of strategy s's classify with a target type among `types`, on
\* the stores as Init drew them
Classify(s, types) ==
    /\ last.call = "none"
    /\ \E target_type \in types, t \in ConceptIds, fault \in FaultsFor(s) \ SaveFaults :
          \E content \in Contents(s, target_type), reply \in RepliesFor(s) :
             \E o \in ClassifyOutcomes(s, concept, concept_edge, neo_nodes, neo_rels, conn,
                                       target_type, t, content, fault, GeneratedVectors,
                                       {reply}) :
                /\ concept' = o.concept
                /\ conn' = o.conn
                /\ last' = [call |-> "classify", strategy |-> s, target_type |-> target_type,
                            target |-> t, fault |-> fault, content |-> content,
                            reply |-> reply, outcome |-> o.outcome,
                            before |-> concept[t],
                            mirror_queries |->
                               IF s = "graph" /\ target_type = "concept" /\ fault # "provider"
                               THEN graph_queries(neo_nodes, neo_rels, t) ELSE <<>>]
    /\ UNCHANGED <<concept_edge, neo_nodes, neo_rels, classification, pc, run, runs,
                   faults, log, hash0>>

\* the two code paths that persist under rule-completeness-v1 / 1.0.0,
\* applied to the same concept of the same store
RulesTierAndClass ==
    /\ last.call = "none"
    /\ \E t \in ConceptIds :
          last' = [call |-> "paths", id |-> RULE_ID, target |-> t,
                   class |-> RuleClassify(concept_edge, "concept", t, row_content(concept, t)),
                   tier |-> classify_concept_rules(orch_concept(concept, t),
                                                   check_relationships(concept_edge, t))]
    /\ UNCHANGED <<concept, concept_edge, neo_nodes, neo_rels, classification, conn, pc,
                   run, runs, faults, log, hash0>>

\* the two code paths that persist under graph-structure-v1 / 1.0.0
GraphTierAndClass ==
    /\ last.call = "none"
    /\ \E t \in ConceptIds : \E n \in _get_nearest_approved(neo_nodes, neo_rels, t) :
          last' = [call |-> "paths", id |-> GRAPH_ID, target |-> t,
                   class |-> Return(GraphClassify(neo_nodes, neo_rels, "concept", t, n)),
                   tier |-> orch_graph_result(neo_nodes, neo_rels, t, TRUE)]
    /\ UNCHANGED <<concept, concept_edge, neo_nodes, neo_rels, classification, conn, pc,
                   run, runs, faults, log, hash0>>

\* a second call of the Rule Strategy's classify after a first one, on a
\* target of the same type, with the same content or another one
RuleClassifyAgain ==
    /\ last.call = "classify" /\ last.strategy = "rule" /\ last.fault = "none"
    /\ \E t \in ConceptIds, content \in {last.content} \cup Contents("llm", last.target_type) :
          \E o \in ClassifyOutcomes("rule", concept, concept_edge, neo_nodes, neo_rels, conn,
                                    last.target_type, t, content, "none", GeneratedVectors,
                                    {GoodReply}) :
             /\ concept' = o.concept
             /\ conn' = o.conn
             /\ last' = [call |-> "again", first |-> last,
                         second |-> [target |-> t, content |-> content, outcome |-> o.outcome]]
    /\ UNCHANGED <<concept_edge, neo_nodes, neo_rels, classification, pc, run, runs,
                   faults, log, hash0>>

\* the limits a caller may pass: none, or 0 .. one more than the store holds
Limits == {NULL} \cup 0..(NumConcepts + 1)

\* the batch a run starts with: classify_pending_concepts(limit) of a helper,
\* or main with --limit, up to the loop
FetchBatch ==
    /\ last.call = "none"
    /\ \E runner \in {"helper", "orchestrator"}, limit \in Limits :
          last' = [call |-> "fetch", runner |-> runner, limit |-> limit,
                   targets |-> apply_limit(IF runner = "helper"
                                           THEN get_pending_concepts(concept)
                                           ELSE orch_get_pending_concepts(concept, TRUE),
                                           limit)]
    /\ UNCHANGED <<concept, concept_edge, neo_nodes, neo_rels, classification, conn, pc,
                   run, runs, faults, log, hash0>>

NextClassify ==
    \/ \E s \in Strategies : Classify(s, TargetTypes)
    \/ FetchBatch
    \/ RuleClassifyAgain
    \/ RulesTierAndClass
    \/ GraphTierAndClass

SpecClassify == Init /\ [][NextClassify]_vars

(* ------------------------ the graph strategy alone --------------------- *)
Pageranks == {NULL, 0, 7}

\* the subsets of S with at most k elements
RECURSIVE SubsetsUpTo(_, _)
SubsetsUpTo(S, k) ==
    IF k = 0 THEN {{}}
    ELSE LET smaller == SubsetsUpTo(S, k - 1)
         IN smaller \cup {P \cup {x} : P \in smaller, x \in S}

InitGraph ==
    /\ concept = [c \in ConceptIds |->
                    ConceptRow(c, "pending", "1p", SeedContent(c), NULL, NULL, c)]
    /\ concept_edge = {}
    /\ \/ \E present \in SUBSET ConceptIds :
             /\ neo_nodes \in [present -> [approval_status : {"pending", "approved"},
                                           pagerank : Pageranks, community : {NULL}]]
             /\ neo_rels \in SubsetsUpTo({r \in [src : present, type : {"BROADER", "NARROWER", "RELATED"},
                                                  dst : present] : r.src # r.dst}, MaxRels)
       \* a hub: concept 1 related to k others, around the connectivity cap;
       \* concept 2 holds the lowest of k + 1 cached pageranks
       \/ \E k \in {CONNECTIVITY_CAP - 1, CONNECTIVITY_CAP, CONNECTIVITY_CAP + 1} :
             /\ neo_nodes = [n \in 1..(k + 1) |->
                               [approval_status |-> "pending",
                                pagerank |-> IF n = 1 THEN 100 ELSE n, community |-> NULL]]
             /\ neo_rels = {[src |-> 1, type |-> "RELATED", dst |-> n] : n \in 2..(k + 1)}
       \* a ring of k BROADER relationships through the concepts, around the
       \* depth of the cycle query
       \/ \E k \in {CYCLE_DEPTH, CYCLE_DEPTH + 1} :
             /\ neo_nodes = [n \in 1..k |->
                               [approval_status |-> "pending", pagerank |-> 7, community |-> NULL]]
             /\ neo_rels = {[src |-> n, type |-> "BROADER", dst |-> (n % k) + 1] : n \in 1..k}
    /\ InitHistory

NextGraph == Classify("graph", {"concept"})

SpecGraph == InitGraph /\ [][NextGraph]_vars

(* ----------------------- the vector strategies alone ------------------- *)
\* the store holds one concept more than the callers classify
StoredIds == 1..(NumConcepts + 1)

\* concept 1 is pending with the vector at angle 0 (or none); every other
\* concept has any of the vectors (or none) in both vector columns
InitVector ==
    /\ \E status \in [StoredIds \ {1} -> {"pending", "approved"}],
          v \in [StoredIds \ {1} -> {NULL} \cup VectorIds], v1 \in {NULL, 1} :
          concept = [c \in StoredIds |->
                       LET vec == IF c = 1 THEN v1 ELSE v[c]
                       IN ConceptRow(c, IF c = 1 THEN "pending" ELSE status[c], "1p",
                                     SeedContent(c), vec, vec, c)]
    /\ concept_edge \in SUBSET {[src_id |-> 1, dst_id |-> c, predicate |-> "related"] :
                                 c \in StoredIds \ {1}}
    /\ neo_nodes = EmptyDict /\ neo_rels = {}
    /\ InitHistory

\* after a vector classify call that returned, the same variant classifies
\* another concept of the same store
ClassifyOther ==
    /\ last.call = "classify" /\ last.strategy \in {"embedding", "local"}
    /\ last.fault = "none" /\ ~Raised(last.outcome)
    /\ \E t \in ConceptIds \ {last.target} :
          \E o \in ClassifyOutcomes(last.strategy, concept, concept_edge, neo_nodes, neo_rels,
                                    conn, "concept", t, last.content, "none",
                                    GeneratedVectors, {GoodReply}) :
             /\ concept' = o.concept
             /\ conn' = o.conn
             /\ last' = [call |-> "pair", strategy |-> last.strategy, first |-> last,
                         second |-> [target |-> t, outcome |-> o.outcome,
                                     before |-> concept[t]]]
    /\ UNCHANGED <<concept_edge, neo_nodes, neo_rels, classification, pc, run, runs,
                   faults, log, hash0>>

NextVector ==
    \/ Classify("embedding", {"concept"})
    \/ Classify("local", {"concept"})
    \/ ClassifyOther

SpecVector == InitVector /\ [][NextVector]_vars

(* --------------------- properties of the classify calls ---------------- *)
HasBooleanPromotionReady(scores) ==
    "promotion_ready" \in DOMAIN scores /\ IsBool(scores.promotion_ready)

ConceptOnly == {"embedding", "local", "graph"}

\* C2 (as claimed): classify never raises; for an unknown target type, or an
\* entity given to a concept-only strategy, it returns a Result with an error
\* flag in scores and a rationale.
C2_ClassifyNeverRaises ==
    last.call = "classify" =>
       /\ ~Raised(last.outcome)
       /\ (\/ last.target_type = "relation"
           \/ last.target_type = "entity" /\ last.strategy \in ConceptOnly)
             => /\ "error" \in DOMAIN last.outcome.returned.scores
                /\ last.outcome.returned.rationale # <<>>

\* the Rule Strategy raises on an unknown target type
C2_Witness ==
    /\ last.call = "classify" /\ last.strategy = "rule" /\ last.target_type = "relation"
    /\ last.outcome = Raise("ValueError")

\* C3 (as claimed): every Result a strategy returns, and every result an
\* orchestrator tier computes for saving, has a boolean promotion_ready in
\* its scores.
C3_PromotionReadyBoolean ==
    /\ (last.call = "classify" /\ ~Raised(last.outcome))
          => HasBooleanPromotionReady(last.outcome.returned.scores)
    /\ last.call = "paths" => HasBooleanPromotionReady(last.tier.scores)

\* the Graph Strategy's Result for a concept that is not in the mirror
C3_Witness ==
    /\ last.call = "classify" /\ last.strategy = "graph" /\ last.target_type = "concept"
    /\ last.target \notin DOMAIN neo_nodes
    /\ ~Raised(last.outcome)
    /\ "promotion_ready" \notin DOMAIN last.outcome.returned.scores

\* C8 (as claimed): the strategy class and the orchestrator tier that share a
\* (classifier_id, classifier_version) compute the same scores and labels
\* for the same concept of the same store.
C8_OnePairOneAlgorithm ==
    last.call = "paths" =>
       /\ ~Raised(last.class)
       /\ last.class.returned.scores = last.tier.scores
       /\ last.class.returned.labels = last.tier.labels

\* the two rule paths disagree on promotion_ready for one concept
C8_Witness ==
    /\ last.call = "paths" /\ last.id = RULE_ID /\ ~Raised(last.class)
    /\ last.class.returned.scores.promotion_ready # last.tier.scores.promotion_ready

\* C10: for a concept in the mirror, degree 0 makes the Graph Strategy's
\* Result an orphan, and an orphan is never promotion_ready.
C10_OrphanDominance ==
    (/\ last.call = "classify" /\ last.strategy = "graph"
     /\ last.target_type = "concept" /\ last.target \in DOMAIN neo_nodes
     /\ ~Raised(last.outcome))
       => LET scores == last.outcome.returned.scores
          IN /\ scores.degree = JNum(Degree(neo_rels, last.target))
             /\ scores.degree = JNum(0) => scores.is_orphan = JBool(TRUE)
             /\ scores.is_orphan = JBool(TRUE) => scores.promotion_ready = JBool(FALSE)

\* an orphan whose other signals are all favourable: no cycle, a pagerank
\* above the bottom decile
C10_Witness ==
    /\ last.call = "classify" /\ last.strategy = "graph"
    /\ last.target_type = "concept" /\ last.target \in DOMAIN neo_nodes
    /\ ~Raised(last.outcome)
    /\ LET scores == last.outcome.returned.scores
       IN /\ scores.degree = JNum(0) /\ scores.is_orphan = JBool(TRUE)
          /\ scores.has_hierarchy_cycle = JBool(FALSE)
          /\ scores.pagerank_percentile.num >= MIN_PAGERANK_PERCENTILE
          /\ scores.promotion_ready = JBool(FALSE)

(* ------------------------- entity rules (C11) -------------------------- *)
OrphanIssue == "Orphan entity (no primary_concept_id)"

RuleEntityCall ==
    /\ last.call = "classify" /\ last.strategy = "rule" /\ last.target_type = "entity"
    /\ ~Raised(last.outcome)

\* C11 (as claimed): an entity for which the Rule Strategy records the issue
\* 'Orphan entity (no primary_concept_id)' is never promotion_ready, whatever
\* its title, asset type, content location and creator.
C11_OrphanEntityBlocked ==
    RuleEntityCall =>
       LET r == last.outcome.returned
       IN (\E k \in DOMAIN r.labels.issues : r.labels.issues[k] = OrphanIssue)
             => r.scores.promotion_ready = JBool(FALSE)

\* an entity whose primary_concept_id is the empty string, with title, asset
\* type, content location and creator present: the issue is recorded and the
\* Result is promotion_ready
C11_Witness ==
    /\ RuleEntityCall
    /\ last.content.primary_concept_id = JText(<<>>)
    /\ \E k \in DOMAIN last.outcome.returned.labels.issues :
          last.outcome.returned.labels.issues[k] = OrphanIssue
    /\ last.outcome.returned.scores.promotion_ready = JBool(TRUE)

(* ----------------------- rule determinism (C12) ------------------------ *)
SameRuleInputs ==
    /\ last.call = "again"
    /\ ~Raised(last.first.outcome) /\ ~Raised(last.second.outcome)
    /\ last.first.content = last.second.content
    /\ last.first.target_type = "concept"
          => check_relationships(concept_edge, last.first.target)
                = check_relationships(concept_edge, last.second.target)

\* C12: two Rule Strategy classify calls with the same target fields and the
\* same Edge-existence answer return identical scores, labels and input_hash,
\* and every Result of the Rule Strategy has confidence exactly 1.0.
C12_RuleDeterministic ==
    /\ SameRuleInputs =>
          LET a == last.first.outcome.returned
              b == last.second.outcome.returned
          IN /\ a.scores = b.scores /\ a.labels = b.labels /\ a.input_hash = b.input_hash
             /\ b.confidence = JNum(1000)
    /\ (last.call = "classify" /\ last.strategy = "rule" /\ ~Raised(last.outcome))
          => last.outcome.returned.confidence = JNum(1000)

\* two calls on different targets with the same fields and Edge answer, both
\* returning a Result
C12_Witness ==
    /\ SameRuleInputs
    /\ last.first.target # last.second.target
    /\ last.first.target_type \in {"concept", "entity"}
    /\ last.first.outcome.returned.scores = last.second.outcome.returned.scores

(* ----------------------- LLM reply shape (C13) ------------------------- *)
\* the reply is a JSON object with a scores map over the four dimensions, a
\* labels map, a rationale and a promotion_ready
WellFormedReply(reply) ==
    /\ reply.transport_ok
    /\ IsDict(reply.json)
    /\ {"scores", "labels", "rationale", "promotion_ready"} \subseteq DOMAIN reply.json.dict
    /\ IsDict(reply.json.dict.scores)
    /\ ConceptDimensions \subseteq DOMAIN reply.json.dict.scores.dict
    /\ IsDict(reply.json.dict.labels)

LLMCall ==
    /\ last.call = "classify" /\ last.strategy = "llm" /\ last.fault = "none"
    /\ last.target_type \in {"concept", "entity"}

\* C13 (as claimed): for the LLM Strategy every transport error and every
\* response that is not valid JSON or lacks a required field yields a Result
\* with scores.error = true and a rationale describing the failure; nothing
\* is raised and no non-error Result is built from a malformed response.
C13_MalformedReplyIsError ==
    (LLMCall /\ ~WellFormedReply(last.reply)) =>
       /\ ~Raised(last.outcome)
       /\ "error" \in DOMAIN last.outcome.returned.scores
       /\ last.outcome.returned.scores.error = JBool(TRUE)
       /\ last.outcome.returned.rationale # <<>>

\* a reply without a scores map becomes a non-error Result
C13_Witness ==
    /\ LLMCall
    /\ last.reply.transport_ok /\ IsDict(last.reply.json)
    /\ "scores" \notin DOMAIN last.reply.json.dict
    /\ ~Raised(last.outcome)
    /\ "error" \notin DOMAIN last.outcome.returned.scores
    /\ last.outcome.returned.confidence = JNum(LLM_CONFIDENCE)

(* ------------------------ unsynced concepts (C14) ---------------------- *)
GraphConceptCall ==
    /\ last.call = "classify" /\ last.strategy = "graph" /\ last.target_type = "concept"
    /\ last.fault = "none"

\* C14: for a concept with no node in the mirror the Graph Strategy returns
\* the 'not yet synced' error Result (scores.error = true, a rationale saying
\* the concept must be synced first) instead of raising, and runs none of the
\* cycle, shortest-path and percentile queries.
C14_UnsyncedIsErrorResult ==
    (GraphConceptCall /\ last.target \notin DOMAIN neo_nodes) =>
       /\ ~Raised(last.outcome)
       /\ "error" \in DOMAIN last.outcome.returned.scores
       /\ last.outcome.returned.scores.error = JBool(TRUE)
       /\ last.outcome.returned.rationale
             = Strs(<<"Concept must be synced to Neo4j before graph classification">>)
       /\ last.mirror_queries = <<"_get_concept_stats">>

\* an unsynced concept classified while another concept has a node
C14_Witness ==
    /\ GraphConceptCall
    /\ last.target \notin DOMAIN neo_nodes
    /\ DOMAIN neo_nodes # {}
    /\ ~Raised(last.outcome)
    /\ last.outcome.returned.scores.in_neo4j = JBool(FALSE)

(* ---------------------- configuration errors (C15) --------------------- *)
\* C15 (as claimed): a run that finds the relational store unreachable is
\* aborted before any target is classified and before any Result is
\* persisted; it is never carried on as an empty batch.
C15_ConfigErrorAborts ==
    run.store = "unreachable" => pc = "aborted" /\ log = <<>>

\* the orchestrator, its psql query having failed, ends the run normally
\* with no target
C15_Witness ==
    /\ run.runner = "orchestrator" /\ run.store = "unreachable"
    /\ pc = "done" /\ run.targets = <<>> /\ log = <<>>
    /\ \E c \in ConceptIds : concept[c].approval_status = "pending"

(* ------------------------ score ranges (C16) --------------------------- *)
\* a score that is a number, or an average kept as (sum, count), lies in
\* [0.0, 1.0]
InUnit(v) ==
    CASE DOMAIN v = {"num"} -> v.num >= 0 /\ v.num <= 1000
      [] DOMAIN v = {"avg"} -> v.avg[1] >= 0 /\ v.avg[1] <= 1000 * v.avg[2]
      [] OTHER -> TRUE

SimilarityScores ==
    {"coherence", "duplicate_similarity", "nearest_approved_similarity",
     "pagerank_percentile", "connectivity"}

\* C16 (as claimed): every similarity-derived score a strategy reports
\* (coherence, duplicate_similarity, nearest_approved_similarity,
\* pagerank_percentile, connectivity) lies in [0.0, 1.0].
C16_ScoresInUnitInterval ==
    (last.call = "classify" /\ ~Raised(last.outcome)) =>
       \A k \in SimilarityScores \cap DOMAIN last.outcome.returned.scores :
          InUnit(last.outcome.returned.scores[k])

\* a concept whose only neighbour points the opposite way: the reported
\* duplicate_similarity is negative
C16_Witness ==
    /\ last.call = "classify" /\ last.strategy \in {"embedding", "local"}
    /\ ~Raised(last.outcome)
    /\ "duplicate_similarity" \in DOMAIN last.outcome.returned.scores
    /\ last.outcome.returned.scores.duplicate_similarity = JNum(-1000)

(* --------------------------- batches (C17) ----------------------------- *)
Pending == {c \in DOMAIN concept : concept[c].approval_status = "pending"}

\* C17 (as claimed): a batch holds only pending targets, in creation-time
\* order, and with a limit n >= 0 exactly the first min(n, number of pending
\* targets) of them.
C17_BatchIsLimitedPrefix ==
    last.call = "fetch" =>
       LET ts == last.targets
           want == IF last.limit = NULL \/ last.limit > Cardinality(Pending)
                   THEN Cardinality(Pending) ELSE last.limit
       IN /\ \A i \in DOMAIN ts : ts[i] \in Pending
          /\ Len(ts) = want
          /\ \A i, j \in DOMAIN ts : i < j => concept[ts[i]].created_at < concept[ts[j]].created_at
          /\ \A i \in DOMAIN ts : \A c \in Pending \ {ts[k] : k \in DOMAIN ts} :
                concept[ts[i]].created_at < concept[c].created_at

\* a helper called with limit 0 takes every pending concept
C17_Witness ==
    /\ last.call = "fetch" /\ last.runner = "helper" /\ last.limit = 0
    /\ Len(last.targets) = NumConcepts

\* the orchestrator's batch is not in creation-time order
C17_WitnessOrder ==
    /\ last.call = "fetch" /\ last.runner = "orchestrator" /\ last.limit = NULL
    /\ \E i, j \in DOMAIN last.targets :
          i < j /\ concept[last.targets[i]].created_at > concept[last.targets[j]].created_at

(* ----------------------- concept rules (C18, C19) ---------------------- *)
RuleConceptCall ==
    /\ last.call = "classify" /\ last.strategy = "rule" /\ last.target_type = "concept"
    /\ ~Raised(last.outcome)

DefinitionLen == IF IsNone(last.content.definition) THEN 0 ELSE Len(last.content.definition.text)

TooShortIssue == "Definition too short (<20 chars)"

\* C19 (as claimed): for a concept the Rule Strategy reports format_valid =
\* true only if the definition's length is within [20, 2000]; a definition
\* shorter than 20 characters yields format_valid = false, the issue
\* 'Definition too short (<20 chars)' and promotion_ready = false.
C19_FormatValidOnlyInRange ==
    RuleConceptCall =>
       LET r == last.outcome.returned
       IN /\ r.scores.format_valid = JBool(TRUE)
                => DefinitionLen >= MIN_DEFINITION_LEN /\ DefinitionLen <= MAX_DEFINITION_LEN
          /\ (~IsNone(last.content.definition) /\ DefinitionLen < MIN_DEFINITION_LEN)
                => /\ r.scores.format_valid = JBool(FALSE)
                   /\ \E k \in DOMAIN r.labels.issues : r.labels.issues[k] = TooShortIssue
                   /\ r.scores.promotion_ready = JBool(FALSE)

\* a labelled concept whose definition is the empty string is reported with
\* format_valid = true
C19_Witness ==
    /\ RuleConceptCall
    /\ last.content.preferred_label = JText(DDD)
    /\ last.content.definition = JText(<<>>)
    /\ last.outcome.returned.scores.format_valid = JBool(TRUE)

\* Scenario A: label 'DDD' and a 15-character definition
C19_ScenarioA ==
    (RuleConceptCall /\ last.content.preferred_label = JText(DDD) /\ DefinitionLen = 15) =>
       /\ last.outcome.returned.scores.format_valid = JBool(FALSE)
       /\ \E k \in DOMAIN last.outcome.returned.labels.issues :
             last.outcome.returned.labels.issues[k] = TooShortIssue
       /\ last.outcome.returned.scores.promotion_ready = JBool(FALSE)

(* ----------------------- vector thresholds (C20) ----------------------- *)
\* a Result of a vector variant that carries the three similarity scores
VectorResult ==
    /\ last.call = "classify" /\ last.strategy \in {"embedding", "local"}
    /\ ~Raised(last.outcome)
    /\ "duplicate_similarity" \in DOMAIN last.outcome.returned.scores

\* coherence >= 0.60, for a number or an average kept as (sum, count); an
\* absent coherence blocks nothing
Coherent(v) ==
    CASE DOMAIN v = {"num"} -> v.num >= COHERENCE_THRESHOLD
      [] DOMAIN v = {"avg"} -> v.avg[1] >= COHERENCE_THRESHOLD * v.avg[2]
      [] OTHER -> TRUE

\* C20 (as claimed): each vector variant sets promotion_ready = coherent and
\* not potential-duplicate and not orphan-by-distance, with coherent iff
\* coherence >= 0.60, potential-duplicate iff duplicate similarity >= 0.95
\* (the label potential_duplicate present exactly then) and orphan iff
\* nearest-approved similarity < 0.70, the boundary values included.
C20_VectorThresholds ==
    VectorResult =>
       LET r == last.outcome.returned
           dup == r.scores.duplicate_similarity
           near == r.scores.nearest_approved_similarity
           duplicate == DOMAIN dup = {"num"} /\ dup.num >= DUPLICATE_THRESHOLD
           orphan == DOMAIN near = {"num"} /\ near.num < ORPHAN_THRESHOLD
       IN /\ r.scores.promotion_ready
                = JBool(Coherent(r.scores.coherence) /\ ~duplicate /\ ~orphan)
          /\ "potential_duplicate" \in DOMAIN r.labels <=> duplicate

\* the local variant at duplicate similarity 0.95 exactly: promotion is
\* blocked, the label potential_duplicate is absent
C20_Witness ==
    /\ VectorResult /\ last.strategy = "local"
    /\ last.outcome.returned.scores.duplicate_similarity = JNum(DUPLICATE_THRESHOLD)
    /\ "potential_duplicate" \notin DOMAIN last.outcome.returned.labels
    /\ last.outcome.returned.scores.promotion_ready = JBool(FALSE)

\* the hosted variant alone follows the thresholds
C20_HostedThresholds ==
    (last.call = "classify" /\ last.strategy = "embedding") => C20_VectorThresholds

(* ----------------------- coherence (C21) ------------------------------- *)
\* the concepts at the other end of an Edge touching the classified concept
Neighbours ==
    {IF e.src_id = last.target THEN e.dst_id ELSE e.src_id :
        e \in {q \in concept_edge : q.src_id = last.target \/ q.dst_id = last.target}}

VectorColumn == IF last.strategy = "local" THEN "embedding_local" ELSE "embedding"

\* C21 (as claimed): for a concept with no Edge neighbours both vector
\* variants let coherence pass, so promotion_ready is decided by the
\* duplicate and orphan-by-distance signals alone; for a concept with
\* neighbours coherence is the mean similarity over all its neighbours.
C21_IsolatedCoherenceNeutral ==
    VectorResult =>
       LET r == last.outcome.returned
           dup == r.scores.duplicate_similarity
           near == r.scores.nearest_approved_similarity
           duplicate == DOMAIN dup = {"num"} /\ dup.num >= DUPLICATE_THRESHOLD
           orphan == DOMAIN near = {"num"} /\ near.num < ORPHAN_THRESHOLD
           sum == SumOver(Neighbours,
                          [n \in Neighbours |->
                              Similarity(concept[last.target][VectorColumn],
                                         concept[n][VectorColumn])])
       IN /\ Neighbours = {} => r.scores.promotion_ready = JBool(~duplicate /\ ~orphan)
          /\ (Neighbours # {} /\ \A n \in Neighbours : concept[n][VectorColumn] # NULL)
                => IF last.strategy = "local"
                   THEN r.scores.coherence.avg[1] * Cardinality(Neighbours)
                           = sum * r.scores.coherence.avg[2]
                   ELSE r.scores.coherence = JNum(RoundDiv(sum, Cardinality(Neighbours)))

\* the local variant on a concept without neighbours, neither duplicate nor
\* orphan by distance: coherence 0.5 blocks promotion
C21_Witness ==
    /\ VectorResult /\ last.strategy = "local" /\ Neighbours = {}
    /\ last.outcome.returned.scores.coherence = [avg |-> <<LOCAL_NEUTRAL_COHERENCE, 1>>]
    /\ last.outcome.returned.scores.duplicate_similarity = JNum(800)
    /\ last.outcome.returned.scores.nearest_approved_similarity = JNum(800)
    /\ last.outcome.returned.scores.promotion_ready = JBool(FALSE)

\* the hosted variant, similarities 0.70 and 0.80 to its two neighbours:
\* coherence 0.75, coherent
C21_HostedMean ==
    /\ VectorResult /\ last.strategy = "embedding" /\ Cardinality(Neighbours) = 2
    /\ last.outcome.returned.scores.coherence = JNum(750)
    /\ last.outcome.returned.scores.is_coherent = JBool(TRUE)

(* ----------------------- duplicate symmetry (C22) ---------------------- *)
\* two concepts A and B classified one after the other by one variant, both
\* with an embedding at both calls, their similarity >= 0.95 and above the
\* similarity either has to any third concept
MutualNearest ==
    /\ last.call = "pair"
    /\ ~Raised(last.second.outcome)
    /\ LET col == IF last.strategy = "local" THEN "embedding_local" ELSE "embedding"
           A == last.first.target
           B == last.second.target
       IN /\ last.second.before[col] # NULL
          /\ Similarity(concept[A][col], concept[B][col]) >= DUPLICATE_THRESHOLD
          /\ \A C \in DOMAIN concept \ {A, B} :
                concept[C][col] # NULL =>
                   /\ Similarity(concept[A][col], concept[C][col])
                         < Similarity(concept[A][col], concept[B][col])
                   /\ Similarity(concept[B][col], concept[C][col])
                         < Similarity(concept[A][col], concept[B][col])

FlagsAsDuplicateOf(r, other) ==
    /\ "potential_duplicate" \in DOMAIN r.labels
    /\ r.labels.potential_duplicate = JNum(other)
    /\ r.scores.promotion_ready = JBool(FALSE)

\* C22 (as claimed): for two concepts whose mutual similarity is >= 0.95 and
\* the highest either has, classifying A yields potential_duplicate = B with
\* promotion_ready = false and classifying B yields potential_duplicate = A
\* with promotion_ready = false; no concept is reported as its own duplicate.
C22_DuplicateSymmetric ==
    /\ MutualNearest =>
          /\ FlagsAsDuplicateOf(last.first.outcome.returned, last.second.target)
          /\ FlagsAsDuplicateOf(last.second.outcome.returned, last.first.target)
    /\ (VectorResult /\ "potential_duplicate" \in DOMAIN last.outcome.returned.labels)
          => last.outcome.returned.labels.potential_duplicate # JNum(last.target)

\* the local variant on two concepts at similarity 0.95 exactly: neither
\* Result names the other as its duplicate
C22_Witness ==
    /\ MutualNearest /\ last.strategy = "local"
    /\ last.first.outcome.returned.scores.duplicate_similarity = JNum(DUPLICATE_THRESHOLD)
    /\ "potential_duplicate" \notin DOMAIN last.first.outcome.returned.labels
    /\ "potential_duplicate" \notin DOMAIN last.second.outcome.returned.labels

\* the hosted variant on two concepts at similarity 0.97: each names the other
C22_HostedPair ==
    /\ MutualNearest /\ last.strategy = "embedding"
    /\ last.first.outcome.returned.scores.duplicate_similarity = JNum(970)
    /\ FlagsAsDuplicateOf(last.first.outcome.returned, last.second.target)
    /\ FlagsAsDuplicateOf(last.second.outcome.returned, last.first.target)

(* ----------------------- generate if missing (C23) --------------------- *)
\* a vector classify call on a concept whose embedding was missing
VectorCallWithoutEmbedding ==
    /\ last.call = "classify" /\ last.strategy \in {"embedding", "local"}
    /\ ~Raised(last.outcome)
    /\ last.before[VectorColumn] = NULL

\* the highest similarity of the classified concept's stored vector to the
\* vector of any other concept, 0 when no other concept has one
BestStoredSimilarity ==
    LET others == {o \in DOMAIN concept \ {last.target} : concept[o][VectorColumn] # NULL}
        sims == {Similarity(concept[last.target][VectorColumn], concept[o][VectorColumn]) :
                    o \in others}
    IN IF others = {} THEN 0 ELSE CHOOSE m \in sims : \A x \in sims : x <= m

\* C23: in a Vector Strategy classify call on a concept without an embedding
\* the embedding is generated and persisted on the concept's row before the
\* similarity computations run (they see the persisted vector); if generation
\* fails, no similarity computation runs and an error Result is returned.
C23_GenerateBeforeSimilarity ==
    VectorCallWithoutEmbedding =>
       LET r == last.outcome.returned
       IN IF last.fault = "provider"
          THEN /\ "error" \in DOMAIN r.scores
               /\ DOMAIN r.scores \cap SimilarityScores = {}
               /\ concept[last.target][VectorColumn] = NULL
          ELSE /\ concept[last.target][VectorColumn] \in GeneratedVectors
               /\ "duplicate_similarity" \in DOMAIN r.scores
               /\ r.scores.duplicate_similarity
                     = IF last.strategy = "local" THEN JNum(BestStoredSimilarity)
                       ELSE IfTruthy(BestStoredSimilarity)

\* the hosted variant generated the vector and scored it against a stored
\* neighbour at similarity 0.95
C23_Witness ==
    /\ VectorCallWithoutEmbedding /\ last.strategy = "embedding" /\ last.fault = "none"
    /\ concept[last.target].embedding \in GeneratedVectors
    /\ last.outcome.returned.scores.duplicate_similarity = JNum(950)

\* generation failed: an error Result, the row still without a vector
C23_WitnessFailure ==
    /\ VectorCallWithoutEmbedding /\ last.fault = "provider"
    /\ "error" \in DOMAIN last.outcome.returned.scores
    /\ concept[last.target][VectorColumn] = NULL

(* ------------------- two callers of ensure_embedding (C24) ------------- *)
Callers == 1..2

\* what the provider may return to the callers of one race
RaceVectors == {3, 4}

ColumnOf(s) == IF s = "local" THEN "embedding_local" ELSE "embedding"

\* a variant whose SELECT never finds the embedding
embedding_missing_unchecked(table, c, col) == TRUE

\* ensure_embedding's SELECT <col> IS NOT NULL FROM concept WHERE id = c:
\* `if result and result[0]: return True`
embedding_missing(table, c, col) == table[c][col] = NULL

\* two classify calls of one variant on one concept, each on its own
\* connection, either free to interleave or the second after the first
RaceStart ==
    /\ last.call = "none"
    /\ \E s \in {"embedding", "local"}, t \in ConceptIds, mode \in {"interleaved", "serialized"} :
          last' = [call |-> "race", strategy |-> s, target |-> t, mode |-> mode,
                   at |-> [p \in Callers |-> "select"],
                   vec |-> [p \in Callers |-> NULL],
                   provider_calls |-> 0, writes |-> <<>>]
    /\ UNCHANGED <<concept, concept_edge, neo_nodes, neo_rels, classification, conn, pc,
                   run, runs, faults, log, hash0>>

MayStep(p) ==
    /\ last.call = "race"
    /\ last.mode = "serialized" => \A q \in Callers : q < p => last.at[q] = "done"

\* ensure_embedding, the SELECT
RaceSelect(p) ==
    /\ MayStep(p) /\ last.at[p] = "select"
    /\ last' = [last EXCEPT !.at[p] =
                   IF embedding_missing(concept, last.target, ColumnOf(last.strategy))
                   THEN "generate" ELSE "done"]
    /\ UNCHANGED <<concept, concept_edge, neo_nodes, neo_rels, classification, conn, pc,
                   run, runs, faults, log, hash0>>

\* ensure_embedding, get_embedding: the provider call
RaceGenerate(p) ==
    /\ MayStep(p) /\ last.at[p] = "generate"
    /\ \E v \in RaceVectors :
          last' = [last EXCEPT !.at[p] = "update", !.vec[p] = v,
                               !.provider_calls = @ + 1]
    /\ UNCHANGED <<concept, concept_edge, neo_nodes, neo_rels, classification, conn, pc,
                   run, runs, faults, log, hash0>>

\* ensure_embedding, UPDATE concept SET <col> = ... WHERE id = c and commit
RaceUpdate(p) ==
    /\ MayStep(p) /\ last.at[p] = "update"
    /\ concept' = [concept EXCEPT ![last.target][ColumnOf(last.strategy)] = last.vec[p]]
    /\ last' = [last EXCEPT !.at[p] = "done",
                             !.writes = Append(@, [by |-> p, vec |-> last.vec[p],
                                                   over |-> concept[last.target][ColumnOf(last.strategy)]])]
    /\ UNCHANGED <<concept_edge, neo_nodes, neo_rels, classification, conn, pc,
                   run, runs, faults, log, hash0>>

NextRace ==
    \/ RaceStart
    \/ \E p \in Callers : RaceSelect(p)
    \/ \E p \in Callers : RaceGenerate(p)
    \/ \E p \in Callers : RaceUpdate(p)

SpecRace == Init /\ [][NextRace]_vars

GraphConceptResult ==
    /\ last.call = "classify" /\ last.strategy = "graph"
    /\ last.target_type = "concept" /\ last.target \in DOMAIN neo_nodes
    /\ ~Raised(last.outcome)

\* the relationships of the mirror that touch the target, counted directly
Touching(t) == {r \in neo_rels : r.src = t \/ r.dst = t}

C25_WitnessOnDecile ==
    /\ GraphConceptResult
    /\ LET scores == last.outcome.returned.scores
       IN /\ scores.pagerank_percentile = JNum(100)
          /\ scores.promotion_ready = JBool(TRUE)

\* the hub beyond the cap: eleven relationships, connectivity 1.0
C25_WitnessCapped ==
    /\ GraphConceptResult
    /\ Cardinality(Touching(last.target)) > CONNECTIVITY_CAP
    /\ last.outcome.returned.scores.connectivity = JNum(1000)

\* a promotion-ready concept on a hierarchy cycle never appears
C25_WitnessCycle ==
    /\ GraphConceptResult
    /\ LET scores == last.outcome.returned.scores
       IN /\ scores.is_orphan = JBool(FALSE)
          /\ scores.has_hierarchy_cycle = JBool(TRUE)
          /\ scores.pagerank_percentile.num >= 100
          /\ scores.promotion_ready = JBool(FALSE)

(* ------------------------ hierarchy cycles (C26) ------------------------ *)
\* the nodes reached from `from` by a directed path of 1..k relationships
\* whose type is in `types`
RECURSIVE ReachedWithin(_, _, _)
ReachedWithin(types, from, k) ==
    IF k = 0 THEN {}
    ELSE LET next == {r.dst : r \in {e \in neo_rels : e.src \in from /\ e.type \in types}}
         IN next \cup ReachedWithin(types, next, k - 1)

\* C26: has_hierarchy_cycle is true exactly when a directed path of 1..10
\* hierarchical relationships (broader or narrower) leads from the target
\* back to the target.
C26_HierarchyCycleExactly ==
    GraphConceptResult =>
       last.outcome.returned.scores.has_hierarchy_cycle
          = JBool(last.target \in ReachedWithin({"BROADER", "NARROWER"}, {last.target}, 10))

\* two concepts each NARROWER than the other: no cycle reported
C26_Witness ==
    /\ GraphConceptResult
    /\ last.target \in ReachedWithin({"NARROWER"}, {last.target}, 10)
    /\ last.target \notin ReachedWithin({"BROADER"}, {last.target}, 10)
    /\ last.outcome.returned.scores.has_hierarchy_cycle = JBool(FALSE)

\* restricted to BROADER relationships the flag is exact
C26_BroaderCycleExactly ==
    GraphConceptResult =>
       last.outcome.returned.scores.has_hierarchy_cycle
          = JBool(last.target \in ReachedWithin({"BROADER"}, {last.target}, 10))

\* a BROADER ring of ten is reported
C26_WitnessRingOfTen ==
    /\ GraphConceptResult /\ Cardinality(neo_rels) = 10
    /\ last.outcome.returned.scores.has_hierarchy_cycle = JBool(TRUE)

\* a BROADER ring of eleven is a cycle through the target and is not reported
C26_WitnessRingOfEleven ==
    /\ GraphConceptResult /\ Cardinality(neo_rels) = 11
    /\ last.target \in ReachedWithin({"BROADER"}, {last.target}, 11)
    /\ last.outcome.returned.scores.has_hierarchy_cycle = JBool(FALSE)

(* ------------------------ missing pagerank (C27) ------------------------ *)
\* C27: a concept whose cached pagerank is null gets pagerank_percentile 0.0
\* from the Graph Strategy and is not promotion_ready, whatever its degree
\* and cycle status.
C27_NullPagerankBlocks ==
    (GraphConceptResult /\ neo_nodes[last.target].pagerank = NULL)
       => LET scores == last.outcome.returned.scores
          IN /\ scores.pagerank = JNull
             /\ scores.pagerank_percentile = JNum(0)
             /\ scores.promotion_ready = JBool(FALSE)

\* connected, cycle-free, pagerank not yet written: only the percentile blocks
C27_Witness ==
    /\ GraphConceptResult /\ neo_nodes[last.target].pagerank = NULL
    /\ LET scores == last.outcome.returned.scores
       IN /\ scores.is_orphan = JBool(FALSE)
          /\ scores.has_hierarchy_cycle = JBool(FALSE)
          /\ scores.pagerank_percentile = JNum(0)
          /\ scores.promotion_ready = JBool(FALSE)

(* -------------------- the stored embedding's frame (C28) ---------------- *)
VectorCall == last.call = "classify" /\ last.strategy \in {"embedding", "local"}

OtherColumn == IF last.strategy = "local" THEN "embedding" ELSE "embedding_local"

\* C28: a vector classify call on a concept that already has the variant's
\* embedding calls no provider (a failing provider goes unnoticed) and leaves
\* the concept's row as it was; no vector call, whatever its outcome, writes
\* the other variant's column; and the second call of a pair leaves a stored
\* vector of its own target as it was.
C28_StoredEmbeddingFrame ==
    /\ VectorCall =>
          /\ concept[last.target][OtherColumn] = last.before[OtherColumn]
          /\ last.before[VectorColumn] # NULL =>
                /\ concept[last.target] = last.before
                /\ (last.fault = "provider" /\ ~Raised(last.outcome))
                      => "error" \notin DOMAIN last.outcome.returned.scores
    /\ (last.call = "pair" /\ last.strategy \in {"embedding", "local"}) =>
          LET col == ColumnOf(last.strategy)
              t == last.second.target
          IN /\ last.second.before[col] # NULL => concept[t] = last.second.before
             /\ last.first.before[col] # NULL => concept[last.first.target] = last.first.before
             /\ concept[t][OtherColumn] = last.second.before[OtherColumn]
             /\ concept[last.first.target][OtherColumn] = last.first.before[OtherColumn]

\* the local variant classified a concept holding a local vector while the
\* provider was down: a Result with similarity scores, the row untouched
C28_Witness ==
    /\ VectorCall /\ last.strategy = "local" /\ last.fault = "provider"
    /\ last.before.embedding_local # NULL
    /\ ~Raised(last.outcome)
    /\ "duplicate_similarity" \in DOMAIN last.outcome.returned.scores
    /\ concept[last.target] = last.before

\* the hosted variant generated a vector: the local column stayed empty
C28_WitnessOtherColumn ==
    /\ VectorCall /\ last.strategy = "embedding"
    /\ last.before.embedding = NULL /\ concept[last.target].embedding \in GeneratedVectors
    /\ concept[last.target].embedding_local = NULL

\* two callers of one variant on one concept, one after the other: no write
\* replaces a stored vector, and only the variant's own column changes
C28_SerializedNoOverwrite ==
    (last.call = "race" /\ last.mode = "serialized")
       => \A i \in DOMAIN last.writes : last.writes[i].over = NULL

(* --------------------- lineage tracker (C29, C30) ----------------------- *)
MaxBlocks == 2

\* episode.py OperationType, those with a run metric and one without
OperationTypes == {"ingest", "declare_pattern", "create_edge", "classify"}

\* how the body of a track_operation block ends: it returns, or raises an
\* Exception whose str() is msg, or raises a BaseException
Bodies ==
    {[kind |-> "returns", msg |-> ""]}
      \cup {[kind |-> "Exception", msg |-> m] : m \in {"boom", ""}}
      \cup {[kind |-> "KeyboardInterrupt", msg |-> ""]}

\* tracker.py LineageTracker.__init__ with its own connection, and the two
\* tables it writes; ids counts the ulids drawn so far
NewTracker ==
    [call |-> "tracker", at |-> "new", run_id |-> NULL, ids |-> 0,
     episodes |-> <<>>,
     metrics |-> [entities_created |-> 0, entities_updated |-> 0, patterns_created |-> 0,
                  edges_created |-> 0, errors |-> 0],
     txn |-> "ok", rejected |-> 0,
     ingestion_run |-> <<>>, ingestion_episode |-> <<>>,
     blocks |-> <<>>, ended |-> <<>>]

\* tracker.py __enter__: a fresh run id, INSERT INTO ingestion_run with
\* status 'running', commit
__enter__(t) ==
    LET id == t.ids + 1
        t1 == [t EXCEPT !.run_id = id, !.ids = id]
    IN IF t.txn = "aborted"
       THEN [t |-> t1, raised |-> "InFailedSqlTransaction"]
       ELSE [t |-> [t1 EXCEPT !.ingestion_run =
                       Append(@, [id |-> id, status |-> "running", updates |-> 0,
                                  metrics |-> JNull])],
             raised |-> "no"]

\* tracker.py __exit__: errors += 1 when the body raised, then
\* UPDATE ingestion_run SET status, metrics WHERE id = run_id and commit;
\* updates counts the UPDATE statements applied to a row
__exit__(t, exc) ==
    LET t1 == IF exc THEN [t EXCEPT !.metrics.errors = @ + 1] ELSE t
    IN IF t1.txn = "aborted"
       THEN [t |-> t1, raised |-> "InFailedSqlTransaction"]
       ELSE [t |-> [t1 EXCEPT !.ingestion_run =
                       [i \in DOMAIN @ |->
                          IF @[i].id = t1.run_id
                          THEN [@[i] EXCEPT !.status = IF exc THEN "failed" ELSE "completed",
                                            !.metrics = t1.metrics, !.updates = @ + 1]
                          ELSE @[i]]],
             raised |-> "no"]

\* tracker.py start_episode: an Episode with a fresh id and the tracker's
\* run_id, appended to _episodes
start_episode(t, operation) ==
    LET episode == [id |-> t.ids + 1, run_id |-> t.run_id, operation |-> operation,
                    error_message |-> JNull]
    IN [t |-> [t EXCEPT !.ids = @ + 1, !.episodes = Append(@, episode)],
        episode |-> episode]

\* tracker.py _update_metrics: `if episode.error_message: return`, then one
\* counter by operation; None and '' are both falsy
_update_metrics(metrics, episode) ==
    IF episode.error_message # JNull /\ episode.error_message # JStr("") THEN metrics
    ELSE IF episode.operation = "ingest" THEN [metrics EXCEPT !.entities_created = @ + 1]
    ELSE IF episode.operation = "declare_pattern" THEN [metrics EXCEPT !.patterns_created = @ + 1]
    ELSE IF episode.operation = "create_edge" THEN [metrics EXCEPT !.edges_created = @ + 1]
    ELSE metrics

\* tracker.py complete_episode: INSERT INTO ingestion_episode, commit, then
\* _update_metrics.  reject: the store refuses the row; nothing rolls back,
\* so the connection's transaction stays aborted (psycopg)
complete_episode(t, episode, reject) ==
    IF t.txn = "aborted" THEN [t |-> t, raised |-> "InFailedSqlTransaction"]
    ELSE IF reject
    THEN [t |-> [t EXCEPT !.txn = "aborted", !.rejected = @ + 1], raised |-> "DatabaseError"]
    ELSE [t |-> [t EXCEPT !.ingestion_episode = Append(@, episode),
                          !.metrics = _update_metrics(@, episode)],
          raised |-> "no"]

\* tracker.py fail_episode: the Episode object gets the message, errors += 1,
\* then complete_episode
fail_episode(t, episode, error, reject) ==
    LET failed == [episode EXCEPT !.error_message = JStr(error)]
        t1 == [t EXCEPT !.metrics.errors = @ + 1,
                        !.episodes = [i \in DOMAIN @ |->
                                        IF @[i].id = episode.id THEN failed ELSE @[i]]]
    IN complete_episode(t1, failed, reject)

\* tracker.py track_operation: start_episode; try: body, complete_episode;
\* except Exception as e: fail_episode(episode, str(e)); raise
track_operation(t, operation, body, reject) ==
    LET s == start_episode(t, operation)
    IN IF body.kind = "returns"
       THEN LET c == complete_episode(s.t, s.episode, reject)
            IN IF c.raised = "no" THEN c
               ELSE LET f == fail_episode(c.t, s.episode, c.raised, FALSE)
                    IN [t |-> f.t, raised |-> IF f.raised = "no" THEN c.raised ELSE f.raised]
       ELSE IF body.kind = "Exception"
       THEN LET f == fail_episode(s.t, s.episode, body.msg, reject)
            IN [t |-> f.t, raised |-> IF f.raised = "no" THEN "Exception" ELSE f.raised]
       ELSE [t |-> s.t, raised |-> body.kind]

OtherStores == <<concept, concept_edge, neo_nodes, neo_rels, classification, conn, pc, run, runs, faults, log, hash0>>

\* `with LineageTracker(...) as tracker:` is entered, for a new tracker or
\* for one whose earlier run is over; when __enter__ raises the body is
\* skipped, and so it is on every later attempt ("broken")
TrackerEnter ==
    /\ \/ last.call = "none"
       \/ last.call = "tracker" /\ last.at = "exited" /\ Len(last.ended) < MaxRuns
    /\ LET e == __enter__(IF last.call = "none" THEN NewTracker ELSE last)
       IN last' = [e.t EXCEPT !.at = IF e.raised = "no" THEN "body" ELSE "broken"]
    /\ UNCHANGED OtherStores

\* one `with tracker.track_operation(...)` block inside the run; an
\* Exception leaving the block is caught by the body or leaves the run
TrackOperation ==
    /\ last.call = "tracker" /\ last.at = "body" /\ Len(last.blocks) < MaxBlocks
    /\ \E operation \in OperationTypes, body \in Bodies, reject, caught \in BOOLEAN :
          /\ reject => last.rejected < MaxFaults
          /\ LET r == track_operation(last, operation, body, reject)
                 leaves == r.raised # "no" /\ (r.raised = "KeyboardInterrupt" \/ ~caught)
             IN last' = [r.t EXCEPT
                           !.at = IF leaves THEN "raising" ELSE "body",
                           !.blocks = Append(@, [operation |-> operation, body |-> body,
                                                 stored |-> SubSeq(r.t.ingestion_episode,
                                                                   Len(last.ingestion_episode) + 1,
                                                                   Len(r.t.ingestion_episode)),
                                                 before |-> last.metrics, after |-> r.t.metrics,
                                                 entered |-> last.ingestion_run[Len(last.ingestion_run)].id,
                                                 rejected |-> r.t.rejected > last.rejected,
                                                 aborted |-> last.txn = "aborted",
                                                 raised |-> r.raised])]
    /\ UNCHANGED OtherStores

\* the with statement of the tracker ends: __exit__ with or without exc_type
TrackerExit ==
    /\ last.call = "tracker" /\ last.at \in {"body", "raising"}
    /\ LET x == __exit__(last, last.at = "raising")
       IN last' = [x.t EXCEPT !.at = "exited",
                              !.ended = Append(@, [run_id |-> last.run_id,
                                                   exc |-> last.at = "raising",
                                                   raised |-> x.raised])]
    /\ UNCHANGED OtherStores

NextLineage == TrackerEnter \/ TrackOperation \/ TrackerExit

\* the tracker starts unconstructed; the stores of the classifiers are not
\* touched by it
InitLineage ==
    /\ concept = [c \in ConceptIds |->
                    ConceptRow(c, "pending", "1p", SeedContent(c), NULL, NULL, c)]
    /\ concept_edge = {}
    /\ neo_nodes = EmptyDict /\ neo_rels = {}
    /\ InitHistory

SpecLineage == InitLineage /\ [][NextLineage]_vars

(* ------------------------ the run's lifecycle (C29) --------------------- *)
RunRows(id) == {i \in DOMAIN last.ingestion_run : last.ingestion_run[i].id = id}

\* the run of exit e has one row, updated once, to 'failed' when the body
\* raised and to 'completed' otherwise
RunClosed(e) ==
    /\ Cardinality(RunRows(e.run_id)) = 1
    /\ \A i \in RunRows(e.run_id) :
          /\ last.ingestion_run[i].status = (IF e.exc THEN "failed" ELSE "completed")
          /\ last.ingestion_run[i].updates = 1

\* inside the with statement the run has one row, 'running' and not yet updated
RunOpen ==
    /\ Cardinality(RunRows(last.run_id)) = 1
    /\ \A i \in RunRows(last.run_id) :
          last.ingestion_run[i].status = "running" /\ last.ingestion_run[i].updates = 0

\* every Episode of the tracker, and every stored episode row, has the id of
\* the run that was entered when its block started
EpisodesCarryRun ==
    /\ Len(last.episodes) = Len(last.blocks)
    /\ \A j \in DOMAIN last.blocks :
          /\ last.episodes[j].run_id = last.blocks[j].entered
          /\ \A k \in DOMAIN last.blocks[j].stored :
                last.blocks[j].stored[k].run_id = last.blocks[j].entered

\* C29: a tracker used as a context manager has its run 'running' from
\* entry, updates that run exactly once on exit, to 'completed' or to
\* 'failed' when the body raised, never leaves it 'running' after exit, and
\* every episode started through it carries that run's id.
C29_RunLifecycle ==
    last.call = "tracker" =>
       /\ last.at \in {"body", "raising"} => RunOpen
       /\ \A i \in DOMAIN last.ended : RunClosed(last.ended[i])
       /\ EpisodesCarryRun

\* an episode INSERT was refused inside a block and the body went on; the
\* with statement has ended and the run's row still says 'running'
C29_Witness ==
    /\ last.call = "tracker" /\ last.at = "exited"
    /\ \E i \in DOMAIN last.ended :
          /\ ~last.ended[i].exc /\ last.ended[i].raised = "InFailedSqlTransaction"
          /\ \A r \in RunRows(last.ended[i].run_id) :
                last.ingestion_run[r].status = "running"

\* while the store refuses no statement the lifecycle is as claimed
C29_UnrejectedLifecycle == (last.call = "tracker" /\ last.rejected = 0) => C29_RunLifecycle

\* two runs of one tracker, the first completed and the second failed
C29_WitnessTwoRuns ==
    /\ last.call = "tracker" /\ last.rejected = 0 /\ Len(last.ended) = 2
    /\ ~last.ended[1].exc /\ last.ended[2].exc
    /\ last.ingestion_run[1].status = "completed" /\ last.ingestion_run[2].status = "failed"
    /\ \E j \in DOMAIN last.episodes : last.episodes[j].run_id = last.ingestion_run[2].id

(* --------------------- track_operation blocks (C30) --------------------- *)
SuccessMetrics == {"entities_created", "entities_updated", "patterns_created", "edges_created"}

\* the run metric that counts a successful episode of the operation
SuccessMetricOf(operation) ==
    IF operation = "ingest" THEN {"entities_created"}
    ELSE IF operation = "declare_pattern" THEN {"patterns_created"}
    ELSE IF operation = "create_edge" THEN {"edges_created"}
    ELSE {}

BlockAsClaimed(b) ==
    /\ Len(b.stored) = 1
    /\ IF b.body.kind = "returns"
       THEN /\ b.stored[1].error_message = JNull
            /\ b.raised = "no"
            /\ \A m \in SuccessMetrics :
                  b.after[m] = b.before[m] + (IF m \in SuccessMetricOf(b.operation) THEN 1 ELSE 0)
            /\ b.after.errors = b.before.errors
       ELSE /\ b.stored[1].error_message = JStr(b.body.msg)
            /\ b.raised # "no"
            /\ \A m \in SuccessMetrics : b.after[m] = b.before[m]
            /\ b.after.errors = b.before.errors + 1

\* C30: each track_operation block persists exactly one episode row; on
\* normal exit without error_message and with the operation's success metric
\* incremented; when the body raises, with the error message, no success
\* metric incremented, 'errors' one higher, and the exception re-raised.
C30_OneEpisodePerBlock ==
    last.call = "tracker" => \A j \in DOMAIN last.blocks : BlockAsClaimed(last.blocks[j])

\* the body of an ingest block raised an exception without a message: the
\* episode is stored, and counted both as an error and as an entity created
C30_Witness ==
    /\ last.call = "tracker"
    /\ \E j \in DOMAIN last.blocks :
          LET b == last.blocks[j]
          IN /\ b.operation = "ingest" /\ b.body = [kind |-> "Exception", msg |-> ""]
             /\ Len(b.stored) = 1 /\ b.raised = "Exception"
             /\ b.after.errors = b.before.errors + 1
             /\ b.after.entities_created = b.before.entities_created + 1

\* a body that returns, or raises an Exception with a message, on a working
\* connection: the block is as claimed
C30_NamedFailureHandled ==
    last.call = "tracker" =>
       \A j \in DOMAIN last.blocks :
          LET b == last.blocks[j]
          IN (~b.rejected /\ ~b.aborted /\ b.body.kind # "KeyboardInterrupt"
                /\ b.body # [kind |-> "Exception", msg |-> ""])
                => BlockAsClaimed(b)

\* a block left by KeyboardInterrupt stores no episode row
C30_WitnessInterrupt ==
    /\ last.call = "tracker"
    /\ \E j \in DOMAIN last.blocks :
          /\ last.blocks[j].body.kind = "KeyboardInterrupt"
          /\ last.blocks[j].stored = <<>> /\ ~last.blocks[j].aborted

\* one failed block that leaves the run: the run's stored metrics count two errors
C30_WitnessCountedTwice ==
    /\ last.call = "tracker" /\ last.at = "exited" /\ Len(last.blocks) = 1
    /\ last.blocks[1].body = [kind |-> "Exception", msg |-> "boom"]
    /\ Len(last.ended) = 1 /\ last.ended[1].raised = "no"
    /\ last.ingestion_run[1].metrics.errors = 2

Next ==
    \/ \E s \in Strategies : HelperStart(s)
    \/ HelperStep
    \/ HelperFinish
    \/ \E sel \in TierChoices : OrchStart(sel)
    \/ OrchRules
    \/ OrchEmbedding
    \/ OrchGraph
    \/ OrchAdvance

Spec == Init /\ [][Next]_vars
====
